---- MODULE Spec2Model ----
(***************************************************************************)
(* Foldspace Console daemon (plugins/foldspace-console/daemon/index.ts)    *)
(* and its UserPromptSubmit consumer (scripts/prompt.sh).                  *)
(*                                                                         *)
(* The daemon is a single-threaded event loop: a handler runs atomically   *)
(* up to its next `await`.  Handlers without an await after req.json() are *)
(* one action; handlers with awaits are split at each await and kept in    *)
(* `reqs` while suspended.  JavaScript Maps keep insertion order, so the   *)
(* three per-session tables are sequences of [k, v] entries.  SessionMeta  *)
(* objects are shared by reference, so they live in `heap` and the         *)
(* registry maps a session id to a heap index.                             *)
(***************************************************************************)
EXTENDS Integers, Sequences, FiniteSets, TLC

\* ------------------------------------------------------------------ bounds

MaxAnn == 2          \* annotations ever added
NumDrains == 2       \* concurrent runs of prompt.sh
MaxRegs == 2         \* POST /api/session requests ever accepted
NumReqs == 2         \* handlers suspended at an await at the same time
MaxInflight == 1     \* timer-started status fetches in flight per root
MaxResp == 2         \* POST /api/response requests ever served
MaxLines == 2        \* lines ever written to a transcript file
MaxTicks == 3        \* advances of the clock
MaxScanLen == 3      \* lines of a transcript written by an arbitrary writer

\* ------------------------------------------------------------ input domains

SessionIds == {"s1", "s2"}
NoSession == ""                      \* an absent / empty session id
UnknownSid == "unknown"              \* body.sessionId || "unknown"
Ids == {"a", "b"}                    \* range of generateId()
Texts == {"x"}                       \* selectedText / comment / content bodies
Drains == 1..NumDrains
Slots == 1..NumReqs

\* the absent value (undefined / null) where a record is expected
Null == [null |-> TRUE]

\* working directories a session-start may carry ("" when the hook has none),
\* and what `git -C <dir> rev-parse --show-toplevel` answers for each
Cwds == {"", "/a", "/a/b"}
NullRoot == "#null"
Roots == {"/a", "/d"}
RepoRootOf(dir) ==
  CASE dir = "/a" -> "/a"
    [] dir = "/a/b" -> "/a"
    [] dir = "." -> "/d"
    [] OTHER -> NullRoot

\* GitStatus snapshots the repositories move between
S0 == [branch |-> "main", ahead |-> 0, behind |-> 0, staged |-> 0, modified |-> 0,
       untracked |-> 0, conflicted |-> 0]
S1 == [S0 EXCEPT !.conflicted = 1]
Statuses == {S0, S1}

\* transcript files: "" is no path, "t1" a JSONL file that may not exist yet
Paths == {"", "t1"}
\* reads: the tool_use blocks of the line that read the file "/a/f"
UserLine == [type |-> "user", usage |-> FALSE, input_tokens |-> 0,
             cache_read_input_tokens |-> 0, output_tokens |-> 0, reads |-> 0]
AssistantLine == [type |-> "assistant", usage |-> TRUE, input_tokens |-> 1,
                  cache_read_input_tokens |-> 1, output_tokens |-> 1, reads |-> 0]
MalformedLine == [type |-> "#malformed", usage |-> FALSE, input_tokens |-> 0,
                  cache_read_input_tokens |-> 0, output_tokens |-> 0, reads |-> 0]
ToolLine == [type |-> "assistant", usage |-> FALSE, input_tokens |-> 0,
             cache_read_input_tokens |-> 0, output_tokens |-> 0, reads |-> 1]

NoFile == [exists |-> FALSE, lines |-> <<>>]

\* ------------------------------------------------- insertion-ordered JS Map

MapHas(m, k) == \E i \in DOMAIN m : m[i].k = k
MapIdx(m, k) == CHOOSE i \in DOMAIN m : m[i].k = k
MapGet(m, k) == m[MapIdx(m, k)].v
MapSet(m, k, v) ==
  IF MapHas(m, k) THEN [m EXCEPT ![MapIdx(m, k)].v = v]
  ELSE Append(m, [k |-> k, v |-> v])
MapDelete(m, k) == SelectSeq(m, LAMBDA e : e.k # k)
MapKeys(m) == {m[i].k : i \in DOMAIN m}

RECURSIVE ConcatVals(_)
ConcatVals(m) == IF m = <<>> THEN <<>> ELSE Head(m).v \o ConcatVals(Tail(m))

\* ------------------------------------------------------------------- state

VARIABLES
  heap,                 \* SessionMeta objects, shared by reference
  sessions,             \* Map<string, SessionMeta>: session id -> heap index
  gitStatusCache,       \* Map<string, GitStatus>
  cwdToRepoRoot,        \* Map<string, string | null>
  gitPollingIntervals,  \* Map<string, Timer>: root -> interval handle
  timers,               \* intervals set and not cleared: [id, root]
  polls,                \* pollGitStatus calls suspended in fetchGitStatus, per root
  reqs,                 \* POST /api/session and /api/session/end handlers at an await
  extStatus,            \* what `git status` would report for each root right now
  files,                \* transcript files by path: whether it exists, and its lines
  ended,                \* history: sessions ended since their last registration completed
  endSeen,              \* history: some session end has been processed
  nReg,                 \* history: registrations accepted
  lastOp,               \* history: the last operation and the messages it broadcast
  responsesBySession,   \* Map<string, Response[]>
  annotationsBySession, \* Map<string, Annotation[]>
  wsClients,            \* Set of connected observers
  wsDead,               \* observers whose connection broke, close() not yet run
  obs,                  \* what each observer has received and made of it
  now,                  \* Date.now()
  drain,                \* prompt.sh runs: pc, session id, GET result
  nAnn,                 \* history: number of annotations ever added
  delivered,            \* history: per annotation, in how many drain outputs (capped at 2)
  cleanSince,           \* history: a drain of this id completed, no add since
  sinceDrain,           \* history: per queue, the numbers of the annotations added since
                        \* the last read of a drain and not removed by a delete
  contextDocsCache,     \* per session id: result, ts, fileSize of the last context-docs parse
  docsReqs              \* GET /api/context-docs handlers suspended in the parse

vars == <<heap, sessions, gitStatusCache, cwdToRepoRoot, gitPollingIntervals, timers, polls,
          reqs, extStatus, files, ended, endSeen, nReg, lastOp, responsesBySession,
          annotationsBySession, wsClients, wsDead, obs, now, drain, nAnn, delivered,
          cleanSince, sinceDrain, contextDocsCache, docsReqs>>

Observers == {"o1", "o2"}
AnnSessions == {"s1"}                \* session ids used on the annotation routes
DrainParams == AnnSessions \cup {NoSession}

gitVars == <<heap, sessions, gitStatusCache, cwdToRepoRoot, gitPollingIntervals, timers,
             polls, reqs, extStatus, files, ended, endSeen, nReg>>
annVars == <<annotationsBySession, drain, nAnn, delivered, cleanSince, sinceDrain>>

\* --------------------------------------------------------------- helpers

\* history record of an operation that is no poll: what it broadcast
Op(msgs) ==
  [op |-> "other", arg |-> "", fetched |-> Null, cachedBefore |-> Null, emitted |-> msgs,
   result |-> <<>>, cleared |-> 0, docs |-> Null]

\* SessionMeta objects: one the registry or a suspended handler still holds is
\* live; the others are garbage, kept as DeadMeta so that their slot is reused
DeadMeta == [dead |-> TRUE]
Reachable(i, sess, rq) ==
  \/ \E j \in DOMAIN sess : sess[j].v = i
  \/ \E r \in DOMAIN rq : rq[r].meta = i
RECURSIVE TrimDead(_)
TrimDead(h) ==
  IF h # <<>> /\ h[Len(h)] = DeadMeta THEN TrimDead(SubSeq(h, 1, Len(h) - 1)) ELSE h
Collect(h, sess, rq) ==
  TrimDead([i \in DOMAIN h |-> IF Reachable(i, sess, rq) THEN h[i] ELSE DeadMeta])
AllocIdx(h) ==
  IF \E i \in DOMAIN h : h[i] = DeadMeta
  THEN CHOOSE i \in DOMAIN h : h[i] = DeadMeta /\ \A j \in DOMAIN h : h[j] = DeadMeta => i <= j
  ELSE Len(h) + 1
Store(h, i, m) == IF i \in DOMAIN h THEN [h EXCEPT ![i] = m] ELSE Append(h, m)

\* f with key k removed (Map.delete on a table whose order is never read)
Without(f, k) == [x \in DOMAIN f \ {k} |-> f[x]]

\* an ensureSession that starts the session's array afresh
EnsureSessionMapReset(m, sid) == MapSet(m, sid, <<>>)

\* ensureSession(sessionId)
EnsureSessionMap(m, sid) == IF MapHas(m, sid) THEN m ELSE Append(m, [k |-> sid, v |-> <<>>])

\* An observer's copy of the three tables, keyed by session id (a session
\* without entries counts like an absent one), and how each event changes it.
SessTable(metas) ==
  [sid \in {metas[i].sessionId : i \in DOMAIN metas} |->
     metas[CHOOSE i \in DOMAIN metas : metas[i].sessionId = sid]]
KeyTable(m) == [k \in {m[i].k : i \in {j \in DOMAIN m : m[j].v # <<>>}} |-> MapGet(m, k)]
Tables(data) ==
  [sessions |-> SessTable(data.sessions), responses |-> KeyTable(data.responses),
   annotations |-> KeyTable(data.annotations)]
EmptyTables == [sessions |-> <<>>, responses |-> <<>>, annotations |-> <<>>]
AppendAt(f, k, e) == IF k \in DOMAIN f THEN [f EXCEPT ![k] = Append(@, e)] ELSE (k :> <<e>>) @@ f
ApplyEvent(view, msg) ==
  CASE msg.type = "init" -> Tables(msg.data)
    [] msg.type = "session_started" ->
         [view EXCEPT !.sessions = (msg.data.sessionId :> msg.data) @@ @]
    [] msg.type = "new_response" ->
         [view EXCEPT !.responses = AppendAt(@, msg.data.sessionId, msg.data),
                      !.sessions = IF msg.data.sessionId \in DOMAIN @
                                   THEN [@ EXCEPT ![msg.data.sessionId].turnCount = @ + 1,
                                                  ![msg.data.sessionId].lastActivity =
                                                     msg.data.timestamp]
                                   ELSE @]
    [] msg.type = "annotation_added" ->
         [view EXCEPT !.annotations = AppendAt(@, msg.data.sessionId, msg.data)]
    [] msg.type = "session_git_status" ->
         [view EXCEPT !.sessions = IF msg.data.sessionId \in DOMAIN @
                                   THEN [@ EXCEPT ![msg.data.sessionId].gitStatus =
                                                     msg.data.gitStatus]
                                   ELSE @]
    [] OTHER -> view
RECURSIVE ApplyAll(_, _)
ApplyAll(view, msgs) ==
  IF msgs = <<>> THEN view ELSE ApplyAll(ApplyEvent(view, Head(msgs)), Tail(msgs))

\* an observer: its tables, the messages of the last delivery, and whether it
\* connected while the daemon's tables were empty
IdleObs == [tables |-> EmptyTables, last |-> <<>>, fromStart |-> FALSE]
Deliver(ob, msgs) == [ob EXCEPT !.tables = ApplyAll(@, msgs), !.last = msgs]

\* a broadcast whose loop ends at a failed send
BroadcastStopsAtFailure(ob, clients, dead, msgs) ==
  [o \in Observers |-> IF o \in clients /\ clients \cap dead = {} /\ msgs # <<>>
                       THEN Deliver(ob[o], msgs) ELSE ob[o]]
\* broadcast(msg): one send per connected observer; a send on a broken
\* connection is dropped by the runtime (ServerWebSocket.send returns 0).
Broadcast(ob, clients, dead, msgs) ==
  [o \in Observers |-> IF o \in clients /\ o \notin dead /\ msgs # <<>>
                       THEN Deliver(ob[o], msgs) ELSE ob[o]]

\* ------------------------------------------------------- annotation queue

\* a GET that ignores the session parameter
GetAnnotationsOfAll(anns, sid) == ConcatVals(anns)

\* GET /api/annotations?session=sid
GetAnnotations(anns, sid) ==
  IF sid # NoSession
  THEN IF MapHas(anns, sid) THEN MapGet(anns, sid) ELSE <<>>
  ELSE ConcatVals(anns)

\* mutant of ClearAnnotations: drops only the head of the session's queue
ClearAnnotationsHeadOnly(anns, sid) ==
  IF sid # NoSession
  THEN IF MapHas(anns, sid) /\ MapGet(anns, sid) # <<>>
       THEN MapSet(anns, sid, Tail(MapGet(anns, sid))) ELSE anns
  ELSE [i \in DOMAIN anns |-> [anns[i] EXCEPT !.v = <<>>]]

\* DELETE /api/annotations?session=sid  (anns.length = 0)
ClearAnnotations(anns, sid) ==
  IF sid # NoSession
  THEN IF MapHas(anns, sid) THEN MapSet(anns, sid, <<>>) ELSE anns
  ELSE [i \in DOMAIN anns |-> [anns[i] EXCEPT !.v = <<>>]]

\* anns.findIndex(a => a.id === id); 0 when absent
RECURSIVE FindIndex(_, _)
FindIndex(q, id) ==
  IF q = <<>> THEN 0
  ELSE IF Head(q).id = id THEN 1
  ELSE LET r == FindIndex(Tail(q), id) IN IF r = 0 THEN 0 ELSE r + 1

\* anns.splice(idx): everything from idx on goes
SpliceToEnd(q, idx) == SubSeq(q, 1, idx - 1)

\* anns.splice(idx, 1)
Splice1(q, idx) == SubSeq(q, 1, idx - 1) \o SubSeq(q, idx + 1, Len(q))

\* POST /api/annotations?action=delete: first queue (in Map order) holding the id
RECURSIVE DeleteFirstMatch(_, _)
DeleteFirstMatch(anns, id) ==
  IF anns = <<>> THEN <<>>
  ELSE IF FindIndex(Head(anns).v, id) # 0
       THEN <<[Head(anns) EXCEPT !.v = Splice1(Head(anns).v, FindIndex(Head(anns).v, id))]>>
            \o Tail(anns)
       ELSE <<Head(anns)>> \o DeleteFirstMatch(Tail(anns), id)

\* history helpers: the creation numbers of the annotations in a queue / table
Nums(q) == {q[i].n : i \in DOMAIN q}
Pending(anns) == Nums(ConcatVals(anns))
Bump(d, S) == [n \in DOMAIN d |-> IF n \in S /\ d[n] < 2 THEN d[n] + 1 ELSE d[n]]

\* POST /api/annotate
AddAnnotation(bodySid, id, responseId, selectedText, comment) ==
  LET sid == IF bodySid = NoSession THEN UnknownSid ELSE bodySid
      annotation == [id |-> id, sessionId |-> sid, responseId |-> responseId,
                     selectedText |-> selectedText, comment |-> comment,
                     timestamp |-> now, n |-> nAnn + 1]
      anns == EnsureSessionMap(annotationsBySession, sid)
  IN /\ nAnn < MaxAnn
     /\ responsesBySession' = EnsureSessionMap(responsesBySession, sid)
     /\ annotationsBySession' = MapSet(anns, sid, Append(MapGet(anns, sid), annotation))
     /\ obs' = Broadcast(obs, wsClients, wsDead,
                           <<[type |-> "annotation_added", data |-> annotation]>>)
     /\ nAnn' = nAnn + 1
     /\ cleanSince' = [p \in DrainParams |->
                         IF p = sid \/ p = NoSession THEN FALSE ELSE cleanSince[p]]
     /\ sinceDrain' = [sinceDrain EXCEPT ![sid] = Append(@, nAnn + 1)]
     /\ lastOp' = Op(<<[type |-> "annotation_added", data |-> annotation]>>)
     /\ UNCHANGED <<wsClients, wsDead, now, contextDocsCache, docsReqs, drain, delivered>>
     /\ UNCHANGED gitVars

\* POST /api/annotations?action=delete
DeleteAnnotation(id) ==
  /\ annotationsBySession' = DeleteFirstMatch(annotationsBySession, id)
  /\ lastOp' = Op(<<>>)
  /\ sinceDrain' = [q \in DOMAIN sinceDrain |->
                      SelectSeq(sinceDrain[q],
                                LAMBDA n : n \notin Pending(annotationsBySession) \
                                                     Pending(DeleteFirstMatch(annotationsBySession, id)))]
  /\ UNCHANGED <<responsesBySession, wsClients, wsDead, obs, now, contextDocsCache, docsReqs, drain, nAnn,
                 delivered, cleanSince>>
  /\ UNCHANGED gitVars

IdleDrain == [pc |-> "idle", sid |-> NoSession, result |-> <<>>, afterClean |-> FALSE]

\* prompt.sh lines 17-22: GET, then exit 0 when the count is 0; otherwise the
\* annotations are printed (lines 24-32) before the DELETE is sent.
DrainGet(d, sid) ==
  LET result == GetAnnotations(annotationsBySession, sid)
  IN /\ drain[d].pc \in {"idle", "done"}
     /\ \A e \in Drains : e < d => drain[e].pc = "got"   \* runs are interchangeable: take the lowest free slot
     /\ drain' = [drain EXCEPT ![d] =
                    [pc |-> IF result = <<>> THEN "done" ELSE "got", sid |-> sid,
                     result |-> result, afterClean |-> cleanSince[sid]]]
     /\ delivered' = Bump(delivered, Nums(result))
     /\ cleanSince' = IF result = <<>> THEN [cleanSince EXCEPT ![sid] = TRUE] ELSE cleanSince
     /\ sinceDrain' = [q \in DOMAIN sinceDrain |->
                         IF q = sid \/ sid = NoSession THEN <<>> ELSE sinceDrain[q]]
     /\ lastOp' = Op(<<>>)
     /\ UNCHANGED <<responsesBySession, annotationsBySession, wsClients, wsDead, obs,
                    now, contextDocsCache, docsReqs, nAnn>>
     /\ UNCHANGED gitVars

\* prompt.sh line 34: DELETE /api/annotations?session=sid
DrainDelete(d) ==
  /\ drain[d].pc = "got"
  /\ annotationsBySession' = ClearAnnotations(annotationsBySession, drain[d].sid)
  /\ drain' = [drain EXCEPT ![d] = IdleDrain]
  /\ cleanSince' = [cleanSince EXCEPT ![drain[d].sid] = TRUE]
  /\ UNCHANGED sinceDrain
  /\ lastOp' = Op(<<>>)
  /\ UNCHANGED <<responsesBySession, wsClients, wsDead, obs, now, contextDocsCache, docsReqs, nAnn, delivered>>
  /\ UNCHANGED gitVars

\* ------------------------------------------------------ transcript scanner

\* a line's input tokens without the cache-read credit
LineTokensInNoCache(l) ==
  IF l.type = "assistant" /\ l.usage THEN l.input_tokens ELSE 0

\* lines 757-759: (u.input_tokens || 0) + (u.cache_read_input_tokens || 0) of
\* an assistant record that has message.usage
LineTokensIn(l) ==
  IF l.type = "assistant" /\ l.usage THEN l.input_tokens + l.cache_read_input_tokens ELSE 0

\* scanTranscript: fold over the lines; a line that fails JSON.parse is skipped
RECURSIVE ScanLines(_)
ScanLines(lines) ==
  IF lines = <<>> THEN [totalTokensIn |-> 0, totalTokensOut |-> 0, turnCount |-> 0]
  ELSE LET rest == ScanLines(SubSeq(lines, 1, Len(lines) - 1))
           l == lines[Len(lines)]
       IN [totalTokensIn |-> rest.totalTokensIn + LineTokensIn(l),
           totalTokensOut |-> rest.totalTokensOut +
             (IF l.type = "assistant" /\ l.usage THEN l.output_tokens ELSE 0),
           turnCount |-> rest.turnCount + (IF l.type = "user" THEN 1 ELSE 0)]

\* a scan whose JSON.parse failure ends the whole scan with zero stats
ScanTranscriptThrows(path) ==
  IF path \notin DOMAIN files \/ ~files[path].exists
       \/ \E i \in DOMAIN files[path].lines : files[path].lines[i].type = "#malformed"
  THEN ScanLines(<<>>)
  ELSE ScanLines(files[path].lines)

\* scanTranscript(path): zero stats when the file cannot be read
ScanTranscript(path) ==
  IF path \notin DOMAIN files \/ ~files[path].exists THEN ScanLines(<<>>)
  ELSE ScanLines(files[path].lines)

\* any writer puts a line into the transcript at position k (the first line
\* creates the file)
InsertLine(path, k, line) ==
  /\ path \in DOMAIN files
  /\ Len(files[path].lines) < MaxScanLen
  /\ k \in 1..(Len(files[path].lines) + 1)
  /\ files' = [files EXCEPT ![path] =
                  [exists |-> TRUE,
                   lines |-> SubSeq(@.lines, 1, k - 1) \o <<line>> \o
                             SubSeq(@.lines, k, Len(@.lines))]]
  /\ lastOp' = Op(<<>>)
  /\ UNCHANGED <<heap, sessions, gitStatusCache, cwdToRepoRoot, gitPollingIntervals, timers,
                 polls, reqs, extStatus, ended, endSeen, nReg, responsesBySession,
                 annotationsBySession, wsClients, wsDead, obs, now, contextDocsCache,
                 docsReqs, drain, nAnn, delivered, cleanSince, sinceDrain>>

\* a call of scanTranscript(path); what it returns is kept in lastOp
ScanCall(path) ==
  /\ lastOp' = [Op(<<>>) EXCEPT !.op = "scan", !.arg = path,
                                !.result = <<ScanTranscript(path)>>]
  /\ UNCHANGED <<heap, sessions, gitStatusCache, cwdToRepoRoot, gitPollingIntervals, timers,
                 polls, reqs, extStatus, files, ended, endSeen, nReg, responsesBySession,
                 annotationsBySession, wsClients, wsDead, obs, now, contextDocsCache,
                 docsReqs, drain, nAnn, delivered, cleanSince, sinceDrain>>

\* ---------------------------------------------------- repository status poller

\* mutant of GitStatusEqual: the conflicted count is not compared
GitStatusEqualNoConflicted(a, b) ==
  IF a = b THEN TRUE
  ELSE IF a = Null \/ b = Null THEN FALSE
  ELSE /\ a.branch = b.branch /\ a.ahead = b.ahead /\ a.behind = b.behind
       /\ a.staged = b.staged /\ a.modified = b.modified /\ a.untracked = b.untracked

\* gitStatusEqual
GitStatusEqual(a, b) ==
  IF a = b THEN TRUE
  ELSE IF a = Null \/ b = Null THEN FALSE
  ELSE /\ a.branch = b.branch /\ a.ahead = b.ahead /\ a.behind = b.behind
       /\ a.staged = b.staged /\ a.modified = b.modified /\ a.untracked = b.untracked
       /\ a.conflicted = b.conflicted

\* cwdToRepoRoot.get(cwd): NullRoot for both a cached null and a missing key
RootGet(cwd) == IF cwd \in DOMAIN cwdToRepoRoot THEN cwdToRepoRoot[cwd] ELSE NullRoot

\* gitStatusCache.get(root)
CacheGet(cache, root) == IF root \in DOMAIN cache THEN cache[root] ELSE Null

\* the smallest handle no live interval uses
NewTimerId == CHOOSE n \in 1..(Cardinality(timers) + 1) : \A t \in timers : t.id # n

\* mutant of StartGitPolling: no `already polling` guard
StartGitPollingUnguarded(root) ==
  [intervals |-> (root :> NewTimerId) @@ gitPollingIntervals,
   timers |-> timers \cup {[id |-> NewTimerId, root |-> root]},
   polls |-> [polls EXCEPT ![root] = @ + 1]]

\* startGitPolling(root): the first pollGitStatus call runs up to its fetch and
\* is left in flight; the interval handle is stored
StartGitPolling(root) ==
  IF root \in DOMAIN gitPollingIntervals
  THEN [intervals |-> gitPollingIntervals, timers |-> timers, polls |-> polls]
  ELSE [intervals |-> (root :> NewTimerId) @@ gitPollingIntervals,
        timers |-> timers \cup {[id |-> NewTimerId, root |-> root]},
        polls |-> [polls EXCEPT ![root] = @ + 1]]

\* maybeStopGitPolling's loop: some record in the registry maps to the root
StillReferenced(sess, root) ==
  \E i \in DOMAIN sess : RootGet(heap[sess[i].v].cwd) = root

\* maybeStopGitPolling(root) run against the registry `sess`
MaybeStopGitPolling(sess, root) ==
  IF StillReferenced(sess, root)
  THEN [intervals |-> gitPollingIntervals, timers |-> timers, cache |-> gitStatusCache]
  ELSE [intervals |-> Without(gitPollingIntervals, root),
        timers |-> IF root \in DOMAIN gitPollingIntervals
                   THEN timers \ {[id |-> gitPollingIntervals[root], root |-> root]}
                   ELSE timers,
        cache |-> Without(gitStatusCache, root)]

\* pollGitStatus's loop over the registry, in Map order: the heap after the
\* updates and the messages broadcast
RECURSIVE FanOut(_, _, _, _)
FanOut(sess, root, status, h) ==
  IF sess = <<>> THEN [heap |-> h, msgs |-> <<>>]
  ELSE LET e == Head(sess)
           hit == RootGet(h[e.v].cwd) = root
           h1 == IF hit THEN [h EXCEPT ![e.v].gitStatus = status] ELSE h
           rest == FanOut(Tail(sess), root, status, h1)
       IN [heap |-> rest.heap,
           msgs |-> (IF hit THEN <<[type |-> "session_git_status",
                                    data |-> [sessionId |-> e.k, gitStatus |-> status]]>>
                     ELSE <<>>) \o rest.msgs]

IdleReq == [kind |-> "idle", pc |-> "", sid |-> "", cwd |-> "", source |-> "",
            tpath |-> "", meta |-> 0, root |-> ""]

\* resolveRepoRoot's key: meta.cwd || "."
RootKey(cwd) == IF cwd = "" THEN "." ELSE cwd

\* resolveRepoRoot line 323, evaluated when the call is made: the cached answer,
\* or "#miss" when git has to be spawned
RootLookup(cwd) ==
  IF RootKey(cwd) \in DOMAIN cwdToRepoRoot THEN cwdToRepoRoot[RootKey(cwd)] ELSE "#miss"

LowestFree(r) == reqs[r].kind = "idle" /\ \A q \in Slots : q < r => reqs[q].kind # "idle"

\* a registration that carries the turn counter of the record it replaces
NewMetaCarriedOver(sid, cwd, source, tpath) ==
  [sessionId |-> sid, cwd |-> cwd, startedAt |-> now, source |-> source,
   transcriptPath |-> tpath, lastActivity |-> now, totalTokensIn |-> 0,
   totalTokensOut |-> 0,
   turnCount |-> IF MapHas(sessions, sid) THEN heap[MapGet(sessions, sid)].turnCount ELSE 0,
   gitStatus |-> Null]

\* the SessionMeta literal of lines 951-966
NewMeta(sid, cwd, source, tpath) ==
  [sessionId |-> sid, cwd |-> cwd, startedAt |-> now, source |-> source,
   transcriptPath |-> tpath, lastActivity |-> now, totalTokensIn |-> 0,
   totalTokensOut |-> 0, turnCount |-> 0, gitStatus |-> Null]

\* a registration that starts the session's ledger and queue afresh
RegisterBuildClearing(r, sid, cwd, source, tpath) ==
  LET idx == AllocIdx(heap)
      scan == source = "resume" /\ tpath # ""
  IN /\ IF sid = NoSession
        THEN UNCHANGED <<heap, sessions, reqs, nReg, responsesBySession,
                         annotationsBySession>>
        ELSE /\ reqs' = [reqs EXCEPT ![r] =
                           [kind |-> "register", pc |-> IF scan THEN "scan" ELSE "root",
                            sid |-> sid, cwd |-> cwd, source |-> source, tpath |-> tpath,
                            meta |-> idx, root |-> IF scan THEN "" ELSE RootLookup(cwd)]]
             /\ nReg' = nReg + 1
             /\ IF scan
                THEN UNCHANGED <<sessions, responsesBySession, annotationsBySession>>
                ELSE /\ sessions' = MapSet(sessions, sid, idx)
                     /\ responsesBySession' = MapSet(responsesBySession, sid, <<>>)
                     /\ annotationsBySession' = MapSet(annotationsBySession, sid, <<>>)
             /\ heap' = Collect(Store(heap, idx, NewMeta(sid, cwd, source, tpath)),
                                sessions', reqs')
     /\ lastOp' = Op(<<>>)
     /\ UNCHANGED <<gitStatusCache, cwdToRepoRoot, gitPollingIntervals, timers, polls,
                    extStatus, files, ended, endSeen, wsClients, wsDead, obs, now, contextDocsCache, docsReqs, drain,
                    nAnn, delivered, cleanSince, sinceDrain>>

\* POST /api/session, lines 945-980.  A missing sessionId is answered 400.
\* The handler first awaits getGitInfo (line 949) having read and written
\* nothing shared, so it is taken up where getGitInfo returns: it builds meta;
\* a resume with a transcript path suspends in scanTranscript, anything else
\* stores the record and suspends in resolveRepoRoot.
RegisterBuild(r, sid, cwd, source, tpath) ==
  LET idx == AllocIdx(heap)
      scan == source = "resume" /\ tpath # ""
  IN /\ IF sid = NoSession
        THEN UNCHANGED <<heap, sessions, reqs, nReg, responsesBySession,
                         annotationsBySession>>
        ELSE /\ reqs' = [reqs EXCEPT ![r] =
                           [kind |-> "register", pc |-> IF scan THEN "scan" ELSE "root",
                            sid |-> sid, cwd |-> cwd, source |-> source, tpath |-> tpath,
                            meta |-> idx, root |-> IF scan THEN "" ELSE RootLookup(cwd)]]
             /\ nReg' = nReg + 1
             /\ IF scan
                THEN UNCHANGED <<sessions, responsesBySession, annotationsBySession>>
                ELSE /\ sessions' = MapSet(sessions, sid, idx)
                     /\ responsesBySession' = EnsureSessionMap(responsesBySession, sid)
                     /\ annotationsBySession' = EnsureSessionMap(annotationsBySession, sid)
             /\ heap' = Collect(Store(heap, idx, NewMeta(sid, cwd, source, tpath)),
                                sessions', reqs')
     /\ lastOp' = Op(<<>>)
     /\ UNCHANGED <<gitStatusCache, cwdToRepoRoot, gitPollingIntervals, timers, polls,
                    extStatus, files, ended, endSeen, wsClients, wsDead, obs, now, contextDocsCache, docsReqs, drain,
                    nAnn, delivered, cleanSince, sinceDrain>>

RegisterRecv(r, sid, cwd, source, tpath) ==
  /\ LowestFree(r)
  /\ nReg < MaxRegs
  /\ RegisterBuild(r, sid, cwd, source, tpath)

\* POST /api/session, lines 945-949, for the handler's own progress: with a
\* session id the handler suspends in getGitInfo, whose two git subprocesses
\* run under no timeout
RegisterCall(r, sid, cwd, source, tpath) ==
  /\ LowestFree(r)
  /\ nReg < MaxRegs
  /\ sid # NoSession
  /\ reqs' = [reqs EXCEPT ![r] =
                 [kind |-> "register", pc |-> "gitinfo", sid |-> sid, cwd |-> cwd,
                  source |-> source, tpath |-> tpath, meta |-> 0, root |-> ""]]
  /\ lastOp' = Op(<<>>)
  /\ UNCHANGED <<heap, sessions, gitStatusCache, cwdToRepoRoot, gitPollingIntervals, timers,
                 polls, extStatus, files, ended, endSeen, nReg, responsesBySession,
                 annotationsBySession, wsClients, wsDead, obs, now, contextDocsCache,
                 docsReqs, drain, nAnn, delivered, cleanSince, sinceDrain>>

\* the git subprocesses of getGitInfo have exited (with or without output:
\* the catch of line 316 gives {}), and the handler goes on from line 951
GitInfoExit(r) ==
  /\ reqs[r].kind = "register" /\ reqs[r].pc = "gitinfo"
  /\ RegisterBuild(r, reqs[r].sid, reqs[r].cwd, reqs[r].source, reqs[r].tpath)

\* the agent appends a line to its JSONL transcript (the file scanTranscript
\* reads at line 730); the first line creates the file
AppendLine(path, line) ==
  /\ path \in DOMAIN files
  /\ Len(files[path].lines) < MaxLines
  /\ files' = [files EXCEPT ![path] = [exists |-> TRUE, lines |-> Append(@.lines, line)]]
  /\ lastOp' = Op(<<>>)
  /\ UNCHANGED <<heap, sessions, gitStatusCache, cwdToRepoRoot, gitPollingIntervals, timers,
                 polls, reqs, extStatus, ended, endSeen, nReg, responsesBySession,
                 annotationsBySession, wsClients, wsDead, obs, now, contextDocsCache, docsReqs, drain, nAnn, delivered,
                 cleanSince, sinceDrain>>

\* a resume that stores the record with the counters of the literal
SeedCountersSkipped(meta, stats) == meta

\* lines 971-973: the counters of the scan go into the record
SeedCounters(meta, stats) ==
  [meta EXCEPT !.totalTokensIn = stats.totalTokensIn,
               !.totalTokensOut = stats.totalTokensOut,
               !.turnCount = stats.turnCount]

\* lines 970-980 after scanTranscript returns
RegisterAfterScan(r) ==
  LET q == reqs[r]
      stats == ScanTranscript(q.tpath)
  IN /\ q.kind = "register" /\ q.pc = "scan"
     /\ sessions' = MapSet(sessions, q.sid, q.meta)
     /\ responsesBySession' = EnsureSessionMap(responsesBySession, q.sid)
     /\ annotationsBySession' = EnsureSessionMap(annotationsBySession, q.sid)
     /\ reqs' = [reqs EXCEPT ![r].pc = "root", ![r].root = RootLookup(q.cwd)]
     /\ heap' = Collect([heap EXCEPT ![q.meta] = SeedCounters(@, stats)], sessions', reqs')
     /\ lastOp' = Op(<<>>)
     /\ UNCHANGED <<gitStatusCache, cwdToRepoRoot, gitPollingIntervals, timers, polls,
                    extStatus, files, ended, endSeen, nReg, wsClients, wsDead, obs, now, contextDocsCache, docsReqs,
                    drain, nAnn, delivered, cleanSince, sinceDrain>>

\* lines 983-993 after resolveRepoRoot returns: a spawned git answers with the
\* root, or fails (non-zero exit, killed at the timeout, throw) and null is
\* cached; then seed from the cache, start polling, broadcast session_started
RegisterAfterRoot(r, answer) ==
  LET q == reqs[r]
      root == IF q.root = "#miss" THEN answer ELSE q.root
      hSeed == IF root # NullRoot /\ CacheGet(gitStatusCache, root) # Null
               THEN [heap EXCEPT ![q.meta].gitStatus = gitStatusCache[root]] ELSE heap
      started == StartGitPolling(root)
      msgs == <<[type |-> "session_started", data |-> hSeed[q.meta]]>>
  IN /\ q.kind = "register" /\ q.pc = "root"
     /\ answer \in {RepoRootOf(RootKey(q.cwd)), NullRoot}
     /\ q.root # "#miss" => answer = NullRoot
     /\ cwdToRepoRoot' = IF q.root = "#miss"
                         THEN (RootKey(q.cwd) :> answer) @@ cwdToRepoRoot ELSE cwdToRepoRoot
     /\ reqs' = [reqs EXCEPT ![r] = IdleReq]
     /\ heap' = Collect(hSeed, sessions, reqs')
     /\ IF root # NullRoot
        THEN /\ gitPollingIntervals' = started.intervals
             /\ timers' = started.timers
             /\ polls' = started.polls
        ELSE UNCHANGED <<gitPollingIntervals, timers, polls>>
     /\ obs' = Broadcast(obs, wsClients, wsDead, msgs)
     /\ ended' = ended \ {q.sid}
     /\ lastOp' = Op(msgs)
     /\ UNCHANGED <<sessions, gitStatusCache, extStatus, files, endSeen, nReg,
                    responsesBySession, wsClients, wsDead, now, contextDocsCache, docsReqs>>
     /\ UNCHANGED annVars

\* a clean-up that forgets to put the record back
PutBackDropped(sess, sid, meta) == sess

\* line 1203: sessions.set(sid, meta) after the record was taken out
PutBack(sess, sid, meta) == MapSet(sess, sid, meta)

\* lines 1193-1207: broadcast session_ended, then the polling clean-up
\* (delete the record, maybeStopGitPolling, put the record back)
EndFinish(sid, meta, h, rq) ==
  LET msgs == <<[type |-> "session_ended", data |-> [sessionId |-> sid]]>>
      root == IF meta = 0 THEN NullRoot ELSE RootGet(h[meta].cwd)
      stopped == MaybeStopGitPolling(MapDelete(sessions, sid), root)
  IN /\ obs' = Broadcast(obs, wsClients, wsDead, msgs)
     /\ reqs' = rq
     /\ IF root # NullRoot
        THEN /\ sessions' = PutBack(MapDelete(sessions, sid), sid, meta)
             /\ gitPollingIntervals' = stopped.intervals
             /\ timers' = stopped.timers
             /\ gitStatusCache' = stopped.cache
        ELSE UNCHANGED <<sessions, gitPollingIntervals, timers, gitStatusCache>>
     /\ heap' = Collect(h, sessions', reqs')
     /\ ended' = ended \cup {sid}
     /\ endSeen' = TRUE
     /\ lastOp' = Op(msgs)
     /\ UNCHANGED <<cwdToRepoRoot, polls, extStatus, files, nReg, responsesBySession,
                    wsClients, wsDead, now, contextDocsCache, docsReqs>>
     /\ UNCHANGED annVars

\* POST /api/session/end, lines 1183-1186: with a known session and a
\* transcript path the handler suspends in scanTranscript
EndRecv(r, sid, tpath) ==
  /\ LowestFree(r)
  /\ MapHas(sessions, sid) /\ tpath # ""
  /\ reqs' = [reqs EXCEPT ![r] = [kind |-> "end", pc |-> "scan", sid |-> sid, cwd |-> "",
                                  source |-> "", tpath |-> tpath,
                                  meta |-> MapGet(sessions, sid), root |-> ""]]
  /\ lastOp' = Op(<<>>)
  /\ UNCHANGED <<heap, sessions, gitStatusCache, cwdToRepoRoot, gitPollingIntervals, timers,
                 polls, extStatus, files, ended, endSeen, nReg, responsesBySession, wsClients,
                 wsDead, obs, now, contextDocsCache, docsReqs>>
  /\ UNCHANGED annVars

\* POST /api/session/end without a scan (unknown session or no transcript
\* path): the handler runs to its end
EndNow(sid, tpath) ==
  /\ ~(MapHas(sessions, sid) /\ tpath # "")
  /\ EndFinish(sid, IF MapHas(sessions, sid) THEN MapGet(sessions, sid) ELSE 0, heap, reqs)

\* lines 1187-1207 after scanTranscript returns
EndAfterScan(r) ==
  LET q == reqs[r]
      stats == ScanTranscript(q.tpath)
  IN /\ q.kind = "end" /\ q.pc = "scan"
     /\ EndFinish(q.sid, q.meta,
                  [heap EXCEPT ![q.meta].totalTokensIn = stats.totalTokensIn,
                               ![q.meta].totalTokensOut = stats.totalTokensOut,
                               ![q.meta].turnCount = stats.turnCount],
                  [reqs EXCEPT ![r] = IdleReq])

\* the setInterval callback of line 433: pollGitStatus runs up to its fetch
TimerTick(root) ==
  /\ \E t \in timers : t.root = root
  /\ polls[root] < MaxInflight
  /\ polls' = [polls EXCEPT ![root] = @ + 1]
  /\ lastOp' = Op(<<>>)
  /\ UNCHANGED <<heap, sessions, gitStatusCache, cwdToRepoRoot, gitPollingIntervals, timers,
                 reqs, extStatus, files, ended, endSeen, nReg, responsesBySession, wsClients,
                 wsDead, obs, now, contextDocsCache, docsReqs>>
  /\ UNCHANGED annVars

\* a poll that takes a failed fetch for a status
PollChangedOnFailure(cached, fetched) == ~GitStatusEqual(cached, fetched)

\* lines 440-443: a failed fetch, or a status equal to the cached one, ends the poll
PollChanged(cached, fetched) == fetched # Null /\ ~GitStatusEqual(cached, fetched)

\* pollGitStatus lines 439-454 after fetchGitStatus returns `fetched`: the
\* status git reports now, or Null when the command failed or was killed
PollComplete(root, fetched) ==
  LET cached == CacheGet(gitStatusCache, root)
      changed == PollChanged(cached, fetched)
      fan == FanOut(sessions, root, fetched, heap)
  IN /\ polls[root] > 0
     /\ fetched \in {Null, extStatus[root]}
     /\ polls' = [polls EXCEPT ![root] = @ - 1]
     /\ IF changed
        THEN /\ gitStatusCache' = (root :> fetched) @@ gitStatusCache
             /\ heap' = fan.heap
             /\ obs' = Broadcast(obs, wsClients, wsDead, fan.msgs)
        ELSE UNCHANGED <<gitStatusCache, heap, obs>>
     /\ lastOp' = [op |-> "poll", arg |-> root, fetched |-> fetched,
                   cachedBefore |-> cached, emitted |-> IF changed THEN fan.msgs ELSE <<>>,
                   result |-> <<>>, cleared |-> 0, docs |-> Null]
     /\ UNCHANGED <<sessions, cwdToRepoRoot, gitPollingIntervals, timers, reqs, extStatus,
                    files, ended, endSeen, nReg, responsesBySession, wsClients, wsDead, now, contextDocsCache, docsReqs>>
     /\ UNCHANGED annVars

\* the repository changes under the daemon, while something is there to fetch it
EnvChange(root, status) ==
  /\ status # extStatus[root]
  /\ (\E t \in timers : t.root = root) \/ polls[root] > 0
  /\ extStatus' = [extStatus EXCEPT ![root] = status]
  /\ lastOp' = Op(<<>>)
  /\ UNCHANGED <<heap, sessions, gitStatusCache, cwdToRepoRoot, gitPollingIntervals, timers,
                 polls, reqs, files, ended, endSeen, nReg, responsesBySession, wsClients,
                 wsDead, obs, now, contextDocsCache, docsReqs>>
  /\ UNCHANGED annVars

\* ------------------------------------------------------- response ledger

\* Array.prototype.sort((a, b) => a.timestamp - b.timestamp): stable
RECURSIVE InsertByTimestamp(_, _)
InsertByTimestamp(sorted, e) ==
  IF sorted = <<>> THEN <<e>>
  ELSE IF Head(sorted).timestamp <= e.timestamp
       THEN <<Head(sorted)>> \o InsertByTimestamp(Tail(sorted), e)
       ELSE <<e>> \o sorted
RECURSIVE SortByTimestamp(_)
SortByTimestamp(q) ==
  IF q = <<>> THEN <<>>
  ELSE InsertByTimestamp(SortByTimestamp(SubSeq(q, 1, Len(q) - 1)), q[Len(q)])

\* the concatenation without the sort
AllResponsesUnsorted(resps) == ConcatVals(resps)

\* lines 1029-1033: every session's entries pushed into a new array, which is
\* then sorted by timestamp
AllResponses(resps) == SortByTimestamp(ConcatVals(resps))

\* a listing that forgets the session filter
ListResponsesUnfiltered(resps, sid) == SortByTimestamp(ConcatVals(resps))

\* GET /api/responses?session=sid: the session's array, [] for an unknown
\* session; without the parameter every session's entries sorted by timestamp
ListResponses(resps, sid) ==
  IF sid # NoSession
  THEN IF MapHas(resps, sid) THEN MapGet(resps, sid) ELSE <<>>
  ELSE AllResponses(resps)

\* the three read-side routes as requests of their own; the answer is kept
\* in lastOp.  GET /api/responses?session=sid
ListResponsesReq(sid) ==
  /\ lastOp' = [Op(<<>>) EXCEPT !.op = "listResponses", !.arg = sid,
                                !.result = ListResponses(responsesBySession, sid)]
  /\ UNCHANGED <<responsesBySession, wsClients, wsDead, obs, now, contextDocsCache, docsReqs>>
  /\ UNCHANGED gitVars
  /\ UNCHANGED annVars

\* Array.prototype.sort((a, b) => b.lastActivity - a.lastActivity): stable
RECURSIVE InsertByLastActivity(_, _)
InsertByLastActivity(sorted, e) ==
  IF sorted = <<>> THEN <<e>>
  ELSE IF Head(sorted).lastActivity >= e.lastActivity
       THEN <<Head(sorted)>> \o InsertByLastActivity(Tail(sorted), e)
       ELSE <<e>> \o sorted
RECURSIVE SortByLastActivity(_)
SortByLastActivity(q) ==
  IF q = <<>> THEN <<>>
  ELSE InsertByLastActivity(SortByLastActivity(SubSeq(q, 1, Len(q) - 1)), q[Len(q)])

\* Array.from(sessions.values())
SessionValues(h, m) == [i \in DOMAIN m |-> h[m[i].v]]

\* a listing in the order of the Map
ListSessionsUnsorted(h, m) == SessionValues(h, m)

\* GET /api/sessions: a new array of the records, most recent activity first
ListSessions(h, m) == SortByLastActivity(SessionValues(h, m))

ListSessionsReq ==
  /\ lastOp' = [Op(<<>>) EXCEPT !.op = "listSessions", !.result = ListSessions(heap, sessions)]
  /\ UNCHANGED <<responsesBySession, wsClients, wsDead, obs, now, contextDocsCache, docsReqs>>
  /\ UNCHANGED gitVars
  /\ UNCHANGED annVars

\* GET /api/annotations?session=sid
GetAnnotationsReq(sid) ==
  /\ lastOp' = [Op(<<>>) EXCEPT !.op = "getAnnotations", !.arg = sid,
                                !.result = GetAnnotations(annotationsBySession, sid)]
  /\ UNCHANGED <<responsesBySession, wsClients, wsDead, obs, now, contextDocsCache, docsReqs>>
  /\ UNCHANGED gitVars
  /\ UNCHANGED annVars

\* DELETE /api/annotations?session=sid, answered {ok, cleared}
ClearAnnotationsReq(sid) ==
  /\ annotationsBySession' = ClearAnnotations(annotationsBySession, sid)
  /\ cleanSince' = [p \in DrainParams |-> IF p = sid \/ sid = NoSession THEN TRUE
                                          ELSE cleanSince[p]]
  /\ sinceDrain' = [q \in DOMAIN sinceDrain |->
                      IF q = sid \/ sid = NoSession THEN <<>> ELSE sinceDrain[q]]
  /\ lastOp' = [Op(<<>>) EXCEPT !.op = "clearAnnotations", !.arg = sid,
                                !.cleared = Len(GetAnnotations(annotationsBySession, sid))]
  /\ UNCHANGED <<responsesBySession, wsClients, wsDead, obs, now, contextDocsCache, docsReqs, drain, nAnn, delivered>>
  /\ UNCHANGED gitVars

\* a response route that creates the session's ledger without its queue
AppendResponseLedgerOnly(bodySid, role, content, id) ==
  LET sid == IF bodySid = NoSession THEN UnknownSid ELSE bodySid
      entry == [id |-> id, sessionId |-> sid, timestamp |-> now,
                role |-> IF role = "" THEN "assistant" ELSE role, content |-> content]
      resps == EnsureSessionMap(responsesBySession, sid)
      msgs == <<[type |-> "new_response", data |-> entry]>>
  IN /\ Len(ConcatVals(responsesBySession)) < MaxResp
     /\ responsesBySession' = MapSet(resps, sid, Append(MapGet(resps, sid), entry))
     /\ annotationsBySession' = annotationsBySession
     /\ heap' = IF MapHas(sessions, sid)
                THEN [heap EXCEPT ![MapGet(sessions, sid)].lastActivity = now,
                                  ![MapGet(sessions, sid)].turnCount = @ + 1]
                ELSE heap
     /\ obs' = Broadcast(obs, wsClients, wsDead, msgs)
     /\ lastOp' = Op(msgs)
     /\ UNCHANGED <<sessions, gitStatusCache, cwdToRepoRoot, gitPollingIntervals, timers,
                    polls, reqs, extStatus, files, ended, endSeen, nReg, wsClients, wsDead,
                    now, contextDocsCache, docsReqs, drain, nAnn, delivered, cleanSince, sinceDrain>>

\* POST /api/response; id is what generateId() returned
AppendResponse(bodySid, role, content, id) ==
  LET sid == IF bodySid = NoSession THEN UnknownSid ELSE bodySid
      entry == [id |-> id, sessionId |-> sid, timestamp |-> now,
                role |-> IF role = "" THEN "assistant" ELSE role, content |-> content]
      resps == EnsureSessionMap(responsesBySession, sid)
      msgs == <<[type |-> "new_response", data |-> entry]>>
  IN /\ Len(ConcatVals(responsesBySession)) < MaxResp
     /\ responsesBySession' = MapSet(resps, sid, Append(MapGet(resps, sid), entry))
     /\ annotationsBySession' = EnsureSessionMap(annotationsBySession, sid)
     /\ heap' = IF MapHas(sessions, sid)
                THEN [heap EXCEPT ![MapGet(sessions, sid)].lastActivity = now,
                                  ![MapGet(sessions, sid)].turnCount = @ + 1]
                ELSE heap
     /\ obs' = Broadcast(obs, wsClients, wsDead, msgs)
     /\ lastOp' = Op(msgs)
     /\ UNCHANGED <<sessions, gitStatusCache, cwdToRepoRoot, gitPollingIntervals, timers,
                    polls, reqs, extStatus, files, ended, endSeen, nReg, wsClients, wsDead,
                    now, contextDocsCache, docsReqs, drain, nAnn, delivered, cleanSince, sinceDrain>>

\* ---------------------------------------------------------- broadcast hub

\* the init message of websocket.open, lines 1224-1237: the three tables
InitMsg ==
  [type |-> "init",
   data |-> [sessions |-> [i \in DOMAIN sessions |-> heap[sessions[i].v]],
             responses |-> responsesBySession,
             annotations |-> annotationsBySession]]

\* an open that joins the broadcast set without sending the snapshot
WsOpenWithoutInit(o) ==
  /\ o \notin wsClients
  /\ wsClients' = wsClients \cup {o}
  /\ obs' = [obs EXCEPT ![o] = IdleObs]
  /\ lastOp' = Op(<<>>)
  /\ UNCHANGED <<responsesBySession, wsDead, now, contextDocsCache, docsReqs>>
  /\ UNCHANGED gitVars
  /\ UNCHANGED annVars

\* websocket.open(ws)
WsOpen(o) ==
  /\ o \notin wsClients
  /\ wsClients' = wsClients \cup {o}
  /\ obs' = [obs EXCEPT ![o] = [Deliver(IdleObs, <<InitMsg>>) EXCEPT
                                   !.fromStart = Tables(InitMsg.data) = EmptyTables]]
  /\ lastOp' = Op(<<>>)
  /\ UNCHANGED <<responsesBySession, wsDead, now, contextDocsCache, docsReqs>>
  /\ UNCHANGED gitVars
  /\ UNCHANGED annVars

\* an observer's connection breaks (the observer is gone and its record with
\* it); the runtime has not called close(ws) yet
WsFail(o) ==
  /\ o \in wsClients \ wsDead
  /\ wsDead' = wsDead \cup {o}
  /\ obs' = [obs EXCEPT ![o] = IdleObs]
  /\ lastOp' = Op(<<>>)
  /\ UNCHANGED <<responsesBySession, wsClients, now, contextDocsCache, docsReqs>>
  /\ UNCHANGED gitVars
  /\ UNCHANGED annVars

\* websocket.close(ws)
WsClose(o) ==
  /\ o \in wsClients
  /\ wsClients' = wsClients \ {o}
  /\ wsDead' = wsDead \ {o}
  /\ obs' = [obs EXCEPT ![o] = IdleObs]
  /\ lastOp' = Op(<<>>)
  /\ UNCHANGED <<responsesBySession, now, contextDocsCache, docsReqs>>
  /\ UNCHANGED gitVars
  /\ UNCHANGED annVars

\* ------------------------------------------------------------ heartbeat

\* the next registry entry at or after position from that has a transcript
\* path (line 1270 skips the others); 0 when the loop is over
NextScan(from) ==
  LET C == {j \in DOMAIN sessions : j >= from /\ heap[sessions[j].v].transcriptPath # ""}
  IN IF C = {} THEN 0 ELSE CHOOSE j \in C : \A k \in C : j <= k

\* the handler suspended in scanTranscript for entry j of the registry
ScanOf(j) ==
  [kind |-> "heartbeat", pc |-> "scan", sid |-> sessions[j].k, cwd |-> "", source |-> "",
   tpath |-> heap[sessions[j].v].transcriptPath, meta |-> sessions[j].v, root |-> ""]

\* lines 1285-1293
StatsMsg(sid, st) ==
  [type |-> "session_stats_update",
   data |-> [sessionId |-> sid, totalTokensIn |-> st.totalTokensIn,
             totalTokensOut |-> st.totalTokensOut, turnCount |-> st.turnCount]]

\* lines 1274-1277
StatsChanged(st, meta) ==
  \/ st.totalTokensIn # meta.totalTokensIn
  \/ st.totalTokensOut # meta.totalTokensOut
  \/ st.turnCount # meta.turnCount

\* the heartbeat callback, lines 1261-1273: nothing at all without an
\* observer; otherwise system_stats is broadcast and the loop suspends in the
\* scan of the first session that has a transcript path.  One callback runs
\* at a time.
HeartbeatTick(r) ==
  LET j == NextScan(1)
      msgs == <<[type |-> "system_stats", data |-> Null]>>
  IN /\ LowestFree(r)
     /\ \A q \in Slots : reqs[q].kind # "heartbeat"
     /\ IF wsClients = {}
        THEN /\ lastOp' = [Op(<<>>) EXCEPT !.op = "heartbeat"]
             /\ UNCHANGED <<reqs, obs>>
        ELSE /\ lastOp' = [Op(msgs) EXCEPT !.op = "heartbeat"]
             /\ obs' = Broadcast(obs, wsClients, wsDead, msgs)
             /\ reqs' = IF j = 0 THEN reqs ELSE [reqs EXCEPT ![r] = ScanOf(j)]
     /\ UNCHANGED <<heap, sessions, gitStatusCache, cwdToRepoRoot, gitPollingIntervals, timers,
                    polls, extStatus, files, ended, endSeen, nReg, responsesBySession,
                    annotationsBySession, wsClients, wsDead, now, drain, nAnn, delivered,
                    cleanSince, sinceDrain, contextDocsCache, docsReqs>>

\* lines 1273-1298 after scanTranscript returns: compare, update and
\* broadcast when something differs, then go on to the next session with a
\* transcript path
HeartbeatAfterScan(r) ==
  LET q == reqs[r]
      st == ScanTranscript(q.tpath)
      changed == StatsChanged(st, heap[q.meta])
      msgs == IF changed THEN <<StatsMsg(q.sid, st)>> ELSE <<>>
      j == NextScan(MapIdx(sessions, q.sid) + 1)
  IN /\ q.kind = "heartbeat" /\ q.pc = "scan"
     /\ reqs' = [reqs EXCEPT ![r] = IF j = 0 THEN IdleReq ELSE ScanOf(j)]
     /\ heap' = Collect(IF changed
                        THEN [heap EXCEPT ![q.meta].totalTokensIn = st.totalTokensIn,
                                          ![q.meta].totalTokensOut = st.totalTokensOut,
                                          ![q.meta].turnCount = st.turnCount,
                                          ![q.meta].lastActivity = now]
                        ELSE heap, sessions, reqs')
     /\ obs' = Broadcast(obs, wsClients, wsDead, msgs)
     /\ lastOp' = [Op(msgs) EXCEPT !.op = "heartbeatScan", !.arg = q.sid]
     /\ UNCHANGED <<sessions, gitStatusCache, cwdToRepoRoot, gitPollingIntervals, timers,
                    polls, extStatus, files, ended, endSeen, nReg, responsesBySession,
                    annotationsBySession, wsClients, wsDead, now, drain, nAnn, delivered,
                    cleanSince, sinceDrain, contextDocsCache, docsReqs>>

\* ------------------------------------------------------ context-docs cache

CONTEXT_DOCS_TTL == 10000

\* the cwd with every "/" replaced by "-"
Slug(cwd) ==
  CASE cwd = "/a" -> "-a"
    [] cwd = "/a/b" -> "-a-b"
    [] OTHER -> cwd

\* resolveTranscriptPath: the stored path, else the one derived from the cwd,
\* "" for null
ResolveTranscriptPath(meta) ==
  IF meta.transcriptPath # "" THEN meta.transcriptPath
  ELSE IF meta.cwd = "" THEN ""
  ELSE "~/.claude/projects/" \o Slug(meta.cwd) \o "/" \o meta.sessionId \o ".jsonl"

\* Bun.file(path).size, every line taking one unit; 0 for a file that is not there
FileSize(path) ==
  IF path \in DOMAIN files /\ files[path].exists THEN Len(files[path].lines) ELSE 0

EmptyDocs == [files |-> <<>>, totalReads |-> 0, uniqueFiles |-> 0]

RECURSIVE CountReads(_)
CountReads(lines) ==
  IF lines = <<>> THEN 0
  ELSE CountReads(Tail(lines)) + (IF Head(lines).type = "assistant" THEN Head(lines).reads ELSE 0)

\* parseContextDocs: one entry per file read, with its read count
ParseContextDocs(path) ==
  LET n == IF path \in DOMAIN files /\ files[path].exists
           THEN CountReads(files[path].lines) ELSE 0
  IN IF n = 0 THEN EmptyDocs
     ELSE [files |-> <<[path |-> "/a/f", readCount |-> n]>>, totalReads |-> n,
           uniqueFiles |-> 1]

\* a cache test that looks at the age only
CacheFreshByAgeOnly(cached, size, t) == t - cached.ts < CONTEXT_DOCS_TTL

\* lines 1145-1150: younger than the TTL and the file still has the recorded size
CacheFresh(cached, size, t) ==
  /\ t - cached.ts < CONTEXT_DOCS_TTL
  /\ size = cached.fileSize

IdleDocs == [pc |-> "idle", sid |-> "", path |-> "", result |-> EmptyDocs]

DocsOp(sid, answer) == [Op(<<>>) EXCEPT !.op = "docs", !.arg = sid, !.docs = answer]

\* GET /api/context-docs, lines 1126-1156: answered at once for a missing
\* parameter (400), an unknown session, a session without a transcript path,
\* or a fresh cache entry; otherwise the handler suspends in parseContextDocs
DocsRecv(r, sid) ==
  LET known == sid # NoSession /\ MapHas(sessions, sid)
      path == IF known THEN ResolveTranscriptPath(heap[MapGet(sessions, sid)]) ELSE ""
      cached == IF sid \in DOMAIN contextDocsCache THEN contextDocsCache[sid] ELSE Null
  IN /\ docsReqs[r].pc = "idle" /\ \A q \in Slots : q < r => docsReqs[q].pc # "idle"
     /\ IF sid = NoSession
        THEN lastOp' = DocsOp(sid, Null) /\ UNCHANGED docsReqs
        ELSE IF path = ""
        THEN lastOp' = DocsOp(sid, EmptyDocs) /\ UNCHANGED docsReqs
        ELSE IF cached # Null /\ CacheFresh(cached, FileSize(path), now)
        THEN lastOp' = DocsOp(sid, cached.result) /\ UNCHANGED docsReqs
        ELSE /\ docsReqs' = [docsReqs EXCEPT ![r] =
                               [pc |-> "parse", sid |-> sid, path |-> path,
                                result |-> EmptyDocs]]
             /\ lastOp' = Op(<<>>)
     /\ UNCHANGED <<heap, sessions, gitStatusCache, cwdToRepoRoot, gitPollingIntervals, timers,
                    polls, reqs, extStatus, files, ended, endSeen, nReg, responsesBySession,
                    annotationsBySession, wsClients, wsDead, obs, now, drain, nAnn, delivered,
                    cleanSince, sinceDrain, contextDocsCache>>

\* parseContextDocs line 816: the transcript is read
DocsParsed(r) ==
  /\ docsReqs[r].pc = "parse"
  /\ docsReqs' = [docsReqs EXCEPT ![r].pc = "store",
                                  ![r].result = ParseContextDocs(docsReqs[r].path)]
  /\ lastOp' = Op(<<>>)
  /\ UNCHANGED <<heap, sessions, gitStatusCache, cwdToRepoRoot, gitPollingIntervals, timers,
                 polls, reqs, extStatus, files, ended, endSeen, nReg, responsesBySession,
                 annotationsBySession, wsClients, wsDead, obs, now, drain, nAnn, delivered,
                 cleanSince, sinceDrain, contextDocsCache>>

\* lines 1159-1169 after parseContextDocs returns: the size is read again and
\* the entry is stored
DocsStore(r) ==
  LET q == docsReqs[r]
  IN /\ q.pc = "store"
     /\ contextDocsCache' = [contextDocsCache EXCEPT ![q.sid] =
                               [result |-> q.result, ts |-> now, fileSize |-> FileSize(q.path)]]
     /\ docsReqs' = [docsReqs EXCEPT ![r] = IdleDocs]
     /\ lastOp' = DocsOp(q.sid, q.result)
     /\ UNCHANGED <<heap, sessions, gitStatusCache, cwdToRepoRoot, gitPollingIntervals, timers,
                    polls, reqs, extStatus, files, ended, endSeen, nReg, responsesBySession,
                    annotationsBySession, wsClients, wsDead, obs, now, drain, nAnn, delivered,
                    cleanSince, sinceDrain>>

\* Date.now() moves on by d milliseconds
Tick(d) ==
  /\ now + d <= MaxTicks * d
  /\ now' = now + d
  /\ lastOp' = Op(<<>>)
  /\ UNCHANGED <<heap, sessions, gitStatusCache, cwdToRepoRoot, gitPollingIntervals, timers,
                 polls, reqs, extStatus, files, ended, endSeen, nReg, responsesBySession,
                 annotationsBySession, wsClients, wsDead, obs, drain, nAnn, delivered,
                 cleanSince, sinceDrain, contextDocsCache, docsReqs>>


Init ==
  /\ heap = <<>>
  /\ sessions = <<>>
  /\ gitStatusCache = <<>>
  /\ cwdToRepoRoot = <<>>
  /\ gitPollingIntervals = <<>>
  /\ timers = {}
  /\ polls = [R \in Roots |-> 0]
  /\ reqs = [r \in Slots |-> IdleReq]
  /\ extStatus = [R \in Roots |-> S0]
  /\ files = [p \in Paths \ {""} |-> NoFile]
  /\ ended = {}
  /\ endSeen = FALSE
  /\ nReg = 0
  /\ lastOp = Op(<<>>)
  /\ responsesBySession = <<>>
  /\ annotationsBySession = <<>>
  /\ wsClients = {}
  /\ wsDead = {}
  /\ obs = [o \in Observers |-> IdleObs]
  /\ now = 0
  /\ contextDocsCache = [s \in SessionIds |-> Null]
  /\ docsReqs = [r \in Slots |-> IdleDocs]
  /\ drain = [d \in Drains |-> IdleDrain]
  /\ nAnn = 0
  /\ delivered = [n \in 1..(MaxAnn + 1) |-> 0]
  /\ cleanSince = [p \in DrainParams |-> FALSE]
  /\ sinceDrain = [q \in SessionIds \cup {UnknownSid} |-> <<>>]

NextAnn ==
  \/ \E s \in AnnSessions \cup {NoSession}, id \in Ids, t \in Texts :
       AddAnnotation(s, id, id, t, t)
  \/ \E id \in Ids : DeleteAnnotation(id)
  \/ \E d \in Drains, s \in DrainParams : DrainGet(d, s)
  \/ \E d \in Drains : DrainDelete(d)

SpecAnn == Init /\ [][NextAnn]_vars

\* annotations of any session, colliding ids included, and deletions by id
NextDelete ==
  \/ \E s \in SessionIds \cup {NoSession}, id \in Ids, t \in Texts :
       AddAnnotation(s, id, id, t, t)
  \/ \E id \in Ids : DeleteAnnotation(id)

SpecDelete == Init /\ [][NextDelete]_vars

\* prompt.sh runs and annotation posts that do not overlap: no run starts while
\* another is between its GET and its DELETE, and no annotation is posted to a
\* queue while a run that read it has not yet sent its DELETE
NextDrain ==
  \/ \E s \in AnnSessions \cup {NoSession}, id \in Ids, t \in Texts :
       /\ \A d \in Drains :
            drain[d].pc = "got" =>
              drain[d].sid \notin {NoSession, IF s = NoSession THEN UnknownSid ELSE s}
       /\ AddAnnotation(s, id, id, t, t)
  \/ \E id \in Ids : DeleteAnnotation(id)
  \/ \E d \in Drains, s \in DrainParams :
       /\ \A e \in Drains : drain[e].pc # "got"
       /\ DrainGet(d, s)
  \/ \E d \in Drains : DrainDelete(d)

SpecDrain == Init /\ [][NextDrain]_vars

\* responses posted for two sessions, the ledger of s2 created first or not (by
\* an annotation posted for it), the clock, and the listing of all responses
NextListResponses ==
  \/ nAnn = 0 /\ AddAnnotation("s2", "a", "a", "x", "x")
  \/ \E s \in SessionIds : AppendResponse(s, "", "x", "a")
  \/ Tick(1)
  \/ ListResponsesReq(NoSession)

SpecListResponses == Init /\ [][NextListResponses]_vars

\* sessions registered, registered again and ended, the clock, and the
\* listing of the sessions
NextListSessions ==
  \/ \E s \in SessionIds : RegisterRecv(1, s, "/a", "startup", "")
  \/ \E a \in {"/a", NullRoot} : RegisterAfterRoot(1, a)
  \/ \E s \in SessionIds : EndNow(s, "")
  \/ Tick(1)
  \/ ListSessionsReq

SpecListSessions == Init /\ [][NextListSessions]_vars

NextGit ==
  \/ \E r \in Slots, s \in SessionIds \cup {NoSession}, c \in Cwds :
       RegisterRecv(r, s, c, "startup", "")
  \/ \E r \in Slots, a \in Roots \cup {NullRoot} : RegisterAfterRoot(r, a)
  \/ \E s \in SessionIds : EndNow(s, "")
  \/ \E R \in Roots : TimerTick(R)
  \/ \E R \in Roots, f \in Statuses \cup {Null} : PollComplete(R, f)
  \/ \E R \in Roots, st \in Statuses : EnvChange(R, st)

SpecGit == Init /\ [][NextGit]_vars

\* the handlers that start and stop intervals
NextTimers ==
  \/ \E r \in Slots, s \in SessionIds \cup {NoSession}, c \in Cwds :
       RegisterRecv(r, s, c, "startup", "")
  \/ \E r \in Slots, a \in Roots \cup {NullRoot} : RegisterAfterRoot(r, a)
  \/ \E s \in SessionIds : EndNow(s, "")

SpecTimers == Init /\ [][NextTimers]_vars

NextLedger ==
  \/ \E s \in AnnSessions \cup {NoSession}, role \in {"", "user"}, c \in Texts \cup {""},
        id \in Ids : AppendResponse(s, role, c, id)
  \/ \E r \in Slots, s \in AnnSessions : RegisterRecv(r, s, "/a", "startup", "")
  \/ \E r \in Slots, a \in Roots \cup {NullRoot} : RegisterAfterRoot(r, a)

SpecLedger == Init /\ [][NextLedger]_vars

\* registrations and ends, the ends with and without a final transcript scan
NextEnd ==
  \/ \E r \in Slots, s \in SessionIds : RegisterRecv(r, s, "/a", "startup", "")
  \/ \E r \in Slots, a \in {"/a", NullRoot} : RegisterAfterRoot(r, a)
  \/ \E s \in SessionIds : EndNow(s, "")
  \/ \E r \in Slots, s \in AnnSessions : EndRecv(r, s, "t1")
  \/ \E r \in Slots : EndAfterScan(r)

SpecEnd == Init /\ [][NextEnd]_vars

\* registrations, fresh and resumed, of one session whose transcript grows
\* and whose responses are posted meanwhile
NextResume ==
  \/ \E r \in Slots, src \in {"startup", "resume"} : RegisterRecv(r, "s1", "/a", src, "t1")
  \/ \E r \in Slots : RegisterAfterScan(r)
  \/ \E r \in Slots : RegisterAfterRoot(r, "/a")
  \/ \E l \in {UserLine, AssistantLine} : AppendLine("t1", l)
  \/ AppendResponse("s1", "", "x", "a")

SpecResume == Init /\ [][NextResume]_vars

\* one session is registered, annotated and answered; both its id and an id
\* the daemon never heard of are drained and listed
NextReads ==
  \/ \E r \in Slots : RegisterRecv(r, "s1", "/a", "startup", "")
  \/ \E r \in Slots : RegisterAfterRoot(r, "/a")
  \/ \E id \in Ids, t \in Texts : AddAnnotation("s1", id, id, t, t)
  \/ \E id \in Ids : AppendResponse("s1", "", "x", id)
  \/ \E s \in SessionIds : ListResponsesReq(s)
  \/ \E s \in SessionIds : GetAnnotationsReq(s)
  \/ \E s \in SessionIds : ClearAnnotationsReq(s)

SpecReads == Init /\ [][NextReads]_vars

\* one session with a transcript that grows, the clock, and context-docs reads
NextDocs ==
  \/ RegisterRecv(1, "s1", "/a", "startup", "t1")
  \/ RegisterAfterRoot(1, "/a")
  \/ AppendLine("t1", ToolLine)
  \/ Tick(5000)
  \/ \E r \in Slots, s \in {"s1", NoSession} : DocsRecv(r, s)
  \/ \E r \in Slots : DocsParsed(r)
  \/ \E r \in Slots : DocsStore(r)

SpecDocs == Init /\ [][NextDocs]_vars

\* sessions registered once each, with and without a transcript path, whose
\* transcript grows, an observer that comes and goes, and the heartbeat
NextHeartbeat ==
  \/ \E s \in SessionIds, tp \in Paths :
        RegisterRecv(1, s, "/a", "startup", tp)
  \/ \E a \in {"/a", NullRoot} : RegisterAfterRoot(1, a)
  \/ \E l \in {UserLine, AssistantLine} : AppendLine("t1", l)
  \/ WsOpen("o1")
  \/ WsClose("o1")
  \/ AppendResponse("s1", "", "x", "a")
  \/ \E r \in Slots : HeartbeatTick(r)
  \/ \E r \in Slots : HeartbeatAfterScan(r)

SpecHeartbeat == Init /\ [][NextHeartbeat]_vars

\* one repository root: its sessions come and go, its interval fires, its
\* status changes, and the fetches succeed or fail
NextPoll ==
  \/ \E s \in SessionIds : RegisterRecv(1, s, "/a", "startup", "")
  \/ RegisterAfterRoot(1, "/a")
  \/ \E s \in SessionIds : EndNow(s, "")
  \/ TimerTick("/a")
  \/ \E f \in Statuses \cup {Null} : PollComplete("/a", f)
  \/ \E st \in Statuses : EnvChange("/a", st)

SpecPoll == Init /\ [][NextPoll]_vars

\* registrations from their first await on, and ends, of one session; what the
\* daemon itself schedules is fair: the continuation after a file read, and
\* the continuation after resolveRepoRoot, whose git is killed after 5 s.  The
\* exit of the git subprocesses of getGitInfo is up to git.
NextTotal ==
  \/ \E r \in Slots, s \in AnnSessions, src \in {"startup", "resume"} :
        RegisterCall(r, s, "/a", src, "t1")
  \/ \E r \in Slots : GitInfoExit(r)
  \/ \E r \in Slots : RegisterAfterScan(r)
  \/ \E r \in Slots, a \in Roots \cup {NullRoot} : RegisterAfterRoot(r, a)
  \/ \E r \in Slots, s \in AnnSessions : EndRecv(r, s, "t1")
  \/ \E r \in Slots : EndAfterScan(r)
  \/ \E s \in AnnSessions : EndNow(s, "")
  \/ \E l \in {UserLine, AssistantLine} : AppendLine("t1", l)

SpecTotal ==
  /\ Init /\ [][NextTotal]_vars
  /\ \A r \in Slots :
       /\ WF_vars(RegisterAfterScan(r))
       /\ WF_vars(\E a \in Roots \cup {NullRoot} : RegisterAfterRoot(r, a))
       /\ WF_vars(EndAfterScan(r))

\* the scanner on its own: transcripts of every shape up to MaxScanLen lines,
\* and a path with no file
NextScanner ==
  \/ \E k \in 1..MaxScanLen,
        l \in {UserLine, AssistantLine, MalformedLine, ToolLine,
               [AssistantLine EXCEPT !.type = "system"],
               [AssistantLine EXCEPT !.type = "user", !.output_tokens = 2],
               [AssistantLine EXCEPT !.input_tokens = 2, !.cache_read_input_tokens = 0,
                                     !.output_tokens = 0]} :
        InsertLine("t1", k, l)
  \/ \E p \in {"t1", "/missing"} : ScanCall(p)

SpecScanner == Init /\ [][NextScanner]_vars

\* sessions of /a and sessions without a working directory (the daemon's own
\* directory is in /d); every status fetch succeeds; the intervals fire, the
\* fetches return and the registrations go on, all fairly
NextStale ==
  \/ \E s \in SessionIds, c \in {"", "/a"} : RegisterRecv(1, s, c, "startup", "")
  \/ \E a \in Roots \cup {NullRoot} : RegisterAfterRoot(1, a)
  \/ \E R \in Roots : TimerTick(R)
  \/ \E R \in Roots : PollComplete(R, extStatus[R])
  \/ \E R \in Roots, st \in Statuses : EnvChange(R, st)

SpecStale ==
  /\ Init /\ [][NextStale]_vars
  /\ WF_vars(\E a \in Roots \cup {NullRoot} : RegisterAfterRoot(1, a))
  /\ \A R \in Roots : WF_vars(TimerTick(R)) /\ WF_vars(PollComplete(R, extStatus[R]))

\* registrations of every kind of one session, while its responses are posted
NextRegister ==
  \/ \E r \in Slots, src \in {"startup", "resume"}, tp \in Paths :
        RegisterRecv(r, "s1", "/a", src, tp)
  \/ \E r \in Slots : RegisterAfterScan(r)
  \/ \E r \in Slots, a \in {"/a", NullRoot} : RegisterAfterRoot(r, a)
  \/ AppendResponse("s1", "", "x", "a")

SpecRegister == Init /\ [][NextRegister]_vars

\* responses for two session ids, registered or not, next to annotations
NextAppend ==
  \/ \E s \in SessionIds : RegisterRecv(1, s, "/a", "startup", "")
  \/ \E a \in {"/a", NullRoot} : RegisterAfterRoot(1, a)
  \/ \E s \in SessionIds, role \in {"", "user"} : AppendResponse(s, role, "x", "a")
  \/ AddAnnotation("s1", "a", "a", "x", "x")

SpecAppend == Init /\ [][NextAppend]_vars

\* the four inbound notifications, with and without a session id
NextIngest ==
  \/ \E r \in Slots, s \in AnnSessions \cup {NoSession} : RegisterRecv(r, s, "/a", "startup", "")
  \/ \E r \in Slots, a \in Roots \cup {NullRoot} : RegisterAfterRoot(r, a)
  \/ \E s \in AnnSessions \cup {NoSession} : AppendResponse(s, "", "x", "a")
  \/ \E s \in AnnSessions \cup {NoSession} : AddAnnotation(s, "a", "a", "x", "x")
  \/ \E s \in AnnSessions \cup {NoSession} : EndNow(s, "")

SpecIngest == Init /\ [][NextIngest]_vars

\* observers that come, break and go while annotations are posted and a
\* session is registered and ended
NextStream ==
  \/ \E o \in Observers : WsOpen(o)
  \/ \E o \in Observers : WsFail(o)
  \/ \E o \in Observers : WsClose(o)
  \/ AddAnnotation("s1", "a", "a", "x", "x")
  \/ RegisterRecv(1, "s1", "/a", "startup", "")
  \/ \E a \in {"/a", NullRoot} : RegisterAfterRoot(1, a)
  \/ EndNow("s1", "")

SpecStream == Init /\ [][NextStream]_vars

NextHub ==
  \/ \E o \in Observers : WsOpen(o)
  \/ \E o \in Observers : WsFail(o)
  \/ \E o \in Observers : WsClose(o)
  \/ AddAnnotation("s1", "a", "a", "x", "x")
  \/ DeleteAnnotation("a")
  \/ AppendResponse("s1", "", "x", "a")
  \/ RegisterRecv(1, "s1", "/a", "startup", "")
  \/ RegisterAfterRoot(1, "/a")
  \/ EndNow("s1", "")
  \/ \E f \in Statuses : PollComplete("/a", f)

SpecHub == Init /\ [][NextHub]_vars

\* ------------------------------------------------------------------ claims

\* C1 (fire-once): a drain of a session whose GET is served after an earlier
\* drain of that session completed, with no addAnnotation for it in between,
\* returns the empty sequence.
C1_FireOnce ==
  \A d \in Drains : (drain[d].pc # "idle" /\ drain[d].afterClean) => drain[d].result = <<>>

\* C1 witness: annotation 1 was handed out by a completed drain and a later
\* drain of session s1, served with no add in between, came back empty.
C1_Witness ==
  /\ delivered[1] = 1
  /\ 1 \notin Pending(annotationsBySession)
  /\ \E d \in Drains : drain[d].pc = "done" /\ drain[d].afterClean /\ drain[d].sid = "s1"

\* C2 (no lost annotation): the clear step of a drain removes no annotation
\* that no drain has returned, so an annotation added between a drain's read
\* and its clear stays pending for the next drain.
C2_NoLostAnnotation ==
  [][(\E d \in Drains : drain[d].pc = "got" /\ drain'[d].pc = "idle")
       => \A n \in Pending(annotationsBySession) \ Pending(annotationsBySession') :
            delivered[n] >= 1]_vars

\* C3 (at-most-once delivery): every annotation is in the output of at most
\* one drain, and an annotation that left the pending table never returns.
C3_AtMostOnceDelivery ==
  /\ [](\A n \in DOMAIN delivered : delivered[n] <= 1)
  /\ [][\A n \in 1..nAnn : n \notin Pending(annotationsBySession)
                             => n \notin Pending(annotationsBySession')]_vars

\* what a registry record's working directory resolved to (resolveRepoRoot is
\* asked for meta.cwd || "."); NullRoot while unresolved or not a repository
SessionRoot(sid) == RootGet(RootKey(heap[MapGet(sessions, sid)].cwd))
SessionsAt(root) == {sid \in MapKeys(sessions) : SessionRoot(sid) = root}
TimersOf(root) == {t \in timers : t.root = root}
Quiet == \A r \in Slots : reqs[r].kind = "idle"

\* C4 (reference counting, stop side): once every session registered under a
\* root has been ended and no handler is in flight, the root has no interval.
\* Stated for sessions that carried a working directory.
C4_StoppedWhenAllEnded ==
  \A R \in Roots :
    (/\ Quiet
     /\ SessionsAt(R) # {}
     /\ SessionsAt(R) \subseteq ended
     /\ \A sid \in SessionsAt(R) : heap[MapGet(sessions, sid)].cwd # "")
    => (R \notin DOMAIN gitPollingIntervals /\ TimersOf(R) = {})

\* C5 (reference counting, start side): never two live intervals for one root;
\* and as long as no session end has been processed, every root some working
\* directory resolved to has exactly one, the one the table holds.
C5_OneTimerPerRoot ==
  \A R \in Roots :
    /\ Cardinality(TimersOf(R)) <= 1
    /\ (~endSeen /\ \E c \in DOMAIN cwdToRepoRoot : cwdToRepoRoot[c] = R)
         => (/\ R \in DOMAIN gitPollingIntervals
             /\ TimersOf(R) = {[id |-> gitPollingIntervals[R], root |-> R]})

\* C5 witness: two sessions registered under directories of the same root,
\* both registrations complete, no end processed, one interval.
C5_Witness ==
  /\ Quiet /\ ~endSeen
  /\ SessionsAt("/a") = {"s1", "s2"}
  /\ heap[MapGet(sessions, "s1")].cwd # heap[MapGet(sessions, "s2")].cwd
  /\ Cardinality(TimersOf("/a")) = 1

\* C6 (structural-diff gating): a poll that fetched a snapshot broadcast a
\* status notification if and only if the snapshot differs from the one that
\* was cached for the root.
C6_NotifyIffChanged ==
  (lastOp.op = "poll" /\ lastOp.fetched # Null)
    => ((lastOp.emitted # <<>>) <=> (lastOp.fetched # lastOp.cachedBefore))

\* C7 (idempotent polling): for a root with exactly one registered, live
\* session, the first successful fetch broadcasts exactly one notification, a
\* fetch equal to the cached snapshot broadcasts none, and after either the
\* cache and the session's gitStatus hold the fetched snapshot.
C7_IdempotentPolling ==
  \A R \in Roots :
    (/\ lastOp.op = "poll" /\ lastOp.arg = R /\ lastOp.fetched # Null
     /\ Quiet
     /\ Cardinality(SessionsAt(R)) = 1
     /\ SessionsAt(R) \cap ended = {})
    => (/\ lastOp.cachedBefore = Null => Len(lastOp.emitted) = 1
        /\ lastOp.cachedBefore = lastOp.fetched => lastOp.emitted = <<>>
        /\ CacheGet(gitStatusCache, R) = lastOp.fetched
        /\ \A sid \in SessionsAt(R) : heap[MapGet(sessions, sid)].gitStatus = lastOp.fetched)

ListAnn(anns, sid) == IF MapHas(anns, sid) THEN MapGet(anns, sid) ELSE <<>>
IsPrefix(p, q) == Len(p) <= Len(q) /\ SubSeq(q, 1, Len(p)) = p

\* C8 (ledger order and ids): a session's listing only ever grows at its end
\* (entries stay in append order and keep the id given at append time), and no
\* two entries of one listing share an id.
C8_AppendOrderUniqueIds ==
  /\ [][\A sid \in SessionIds \cup {UnknownSid} :
          IsPrefix(ListResponses(responsesBySession, sid),
                   ListResponses(responsesBySession', sid))]_vars
  /\ [](\A sid \in SessionIds \cup {UnknownSid} :
          LET l == ListResponses(responsesBySession, sid)
          IN \A i, j \in DOMAIN l : i # j => l[i].id # l[j].id)

\* C9 (late-join equivalence): whenever no handler is suspended, an observer
\* connected since the tables were empty, having applied every event it
\* received, holds the tables a newly connecting observer is sent.
C9_LateJoinEquivalence ==
  \A o \in wsClients \ wsDead :
    (Quiet /\ obs[o].fromStart) => obs[o].tables = Tables(InitMsg.data)

C11_EmptyContentNoOp ==
  [][(\E s \in SessionIds \cup {NoSession}, role \in {"", "user"}, id \in Ids :
        AppendResponse(s, role, "", id))
     => (UNCHANGED <<responsesBySession, heap, sessions, obs>> /\ lastOp'.emitted = <<>>)]_vars

\* C12 (missing-input rejection): a session-start, output-capture,
\* annotation-add or session-end notification without a session id changes
\* neither the registry, the ledgers, the annotation queues nor the poller
\* state, and broadcasts nothing.
C12_MissingIdRejected ==
  [][(\/ \E r \in Slots, c \in Cwds : RegisterRecv(r, NoSession, c, "startup", "")
      \/ \E role \in {"", "user"}, c \in Texts \cup {""}, id \in Ids :
           AppendResponse(NoSession, role, c, id)
      \/ \E id \in Ids, t \in Texts : AddAnnotation(NoSession, id, id, t, t)
      \/ EndNow(NoSession, ""))
     => (/\ UNCHANGED <<heap, sessions, responsesBySession, annotationsBySession,
                        gitStatusCache, cwdToRepoRoot, gitPollingIntervals, timers, polls,
                        obs>>
         /\ lastOp'.emitted = <<>>)]_vars

\* C13 (registry permanence): the registry holds one record per session id,
\* the record of its own session, and a session id once in the registry is in
\* it after every later step, the steps of a session end included.
C13_RegistryPermanence ==
  /\ [](/\ Len(sessions) = Cardinality(MapKeys(sessions))
        /\ \A i \in DOMAIN sessions :
             /\ sessions[i].v \in DOMAIN heap
             /\ heap[sessions[i].v] # DeadMeta
             /\ heap[sessions[i].v].sessionId = sessions[i].k)
  /\ [][MapKeys(sessions) \subseteq MapKeys(sessions')]_vars

\* C13 witness: s1 was ended, its end took the record out for the polling
\* clean-up (the interval of its root is gone), and the record is there.
C13_Witness ==
  /\ "s1" \in ended /\ Quiet
  /\ MapHas(sessions, "s1")
  /\ SessionRoot("s1") = "/a"
  /\ "/a" \notin DOMAIN gitPollingIntervals

\* C14 (resume seeding): a registration with source resume and a log path
\* stores its record in the registry with turnCount, totalTokensIn and
\* totalTokensOut equal to the scan of the log; while the scan is running the
\* new record is in no registry entry, so no operation sees it un-seeded; and
\* the rest of the registration leaves the counters alone.
C14_ResumeSeeding ==
  /\ [](\A r \in Slots :
          (reqs[r].kind = "register" /\ reqs[r].pc = "scan")
            => \A i \in DOMAIN sessions : sessions[i].v # reqs[r].meta)
  /\ [][\A r \in Slots :
          /\ RegisterAfterScan(r)
               => LET m == heap'[MapGet(sessions', reqs[r].sid)]
                      st == ScanTranscript(reqs[r].tpath)
                  IN /\ MapGet(sessions', reqs[r].sid) = reqs[r].meta
                     /\ m.turnCount = st.turnCount
                     /\ m.totalTokensIn = st.totalTokensIn
                     /\ m.totalTokensOut = st.totalTokensOut
          /\ (reqs[r].source = "resume" /\ reqs[r].tpath # ""
                /\ RegisterAfterRoot(r, "/a")
                /\ MapGet(sessions', reqs[r].sid) = reqs[r].meta)
               => LET m == heap[reqs[r].meta]
                      n == heap'[reqs[r].meta]
                  IN /\ n.turnCount = m.turnCount
                     /\ n.totalTokensIn = m.totalTokensIn
                     /\ n.totalTokensOut = m.totalTokensOut]_vars

\* C14 witness: a resume is suspended after its scan, and the record in the
\* registry carries the non-zero counters of a transcript with a user turn and
\* an assistant turn.
C14_Witness ==
  \E r \in Slots :
    /\ reqs[r].kind = "register" /\ reqs[r].pc = "root" /\ reqs[r].source = "resume"
    /\ MapHas(sessions, "s1") /\ MapGet(sessions, "s1") = reqs[r].meta
    /\ heap[reqs[r].meta].turnCount = 1
    /\ heap[reqs[r].meta].totalTokensIn = 2
    /\ heap[reqs[r].meta].totalTokensOut = 1

\* a session id the daemon has no trace of
NeverSeen(sid) ==
  /\ ~MapHas(sessions, sid)
  /\ ~MapHas(responsesBySession, sid)
  /\ ~MapHas(annotationsBySession, sid)

\* C15 (unknown-session safety): listing the responses, reading the
\* annotations and clearing the annotations of a session id that was never seen
\* answer with an empty collection (nothing cleared), and leave the registry,
\* the ledgers and the queues as they were: no sequence is created for the id.
C15_UnknownSessionSafety ==
  [][\A sid \in SessionIds :
       (NeverSeen(sid) /\ (\/ ListResponsesReq(sid)
                           \/ GetAnnotationsReq(sid)
                           \/ ClearAnnotationsReq(sid)))
         => /\ lastOp'.result = <<>>
            /\ lastOp'.cleared = 0
            /\ lastOp'.emitted = <<>>
            /\ UNCHANGED <<heap, sessions, responsesBySession, annotationsBySession>>]_vars

\* C15 witness: s2 was never seen, s1 has a response and a pending
\* annotation, and the responses of s2 have just been listed.
C15_Witness ==
  /\ NeverSeen("s2")
  /\ lastOp.op = "listResponses" /\ lastOp.arg = "s2"
  /\ MapHas(responsesBySession, "s1") /\ MapGet(responsesBySession, "s1") # <<>>
  /\ MapHas(annotationsBySession, "s1") /\ MapGet(annotationsBySession, "s1") # <<>>

C17_Heartbeat ==
  [][\A r \in Slots :
       /\ (HeartbeatTick(r) /\ NextScan(1) # 0)
            => \E q \in Slots : reqs'[q].kind = "heartbeat"
       /\ HeartbeatAfterScan(r)
            => LET q == reqs[r]
                   st == ScanTranscript(q.tpath)
                   n == heap'[q.meta]
               IN IF StatsChanged(st, heap[q.meta])
                  THEN /\ ~StatsChanged(st, n)
                       /\ lastOp'.emitted = <<StatsMsg(q.sid, st)>>
                  ELSE /\ n = heap[q.meta]
                       /\ lastOp'.emitted = <<>>]_vars

\* C18 (a failed status fetch is no update): when the fetch of a poll fails
\* or is killed at its timeout, the status cache, every session record, the
\* registry and the intervals with their timers are unchanged, nothing is
\* emitted, and the poll is over: the timer of the root, still there, starts
\* the next one at its next tick.
C18_FetchFailureNoUpdate ==
  [][(lastOp'.op = "poll" /\ lastOp'.fetched = Null)
       => /\ UNCHANGED <<gitStatusCache, heap, sessions, gitPollingIntervals, timers, obs>>
          /\ lastOp'.emitted = <<>>
          /\ polls'[lastOp'.arg] = polls[lastOp'.arg] - 1]_vars

\* C18 witness: a fetch for /a has just failed while /a has a cached status,
\* a live timer, a session that carries the status, and git would by now
\* report another status.
C18_Witness ==
  /\ lastOp.op = "poll" /\ lastOp.fetched = Null /\ lastOp.arg = "/a"
  /\ lastOp.cachedBefore # Null
  /\ extStatus["/a"] # lastOp.cachedBefore
  /\ \E t \in timers : t.root = "/a"
  /\ \E i \in DOMAIN sessions : heap[sessions[i].v].gitStatus = lastOp.cachedBefore

\* C19 (entering Active): in the step that starts the interval of a root, the
\* first status fetch is over: none is left in flight, and either it failed and
\* the cache is as before, or the cache holds the status git reports and the
\* registered record and its session_started event carry that status.
C19_EnteringActiveFetchesFirst ==
  [][\A R \in Roots :
       (R \notin DOMAIN gitPollingIntervals /\ R \in DOMAIN gitPollingIntervals')
         => /\ polls'[R] = polls[R]
            /\ \/ gitStatusCache' = gitStatusCache
               \/ /\ CacheGet(gitStatusCache', R) = extStatus[R]
                  /\ Len(lastOp'.emitted) = 1
                  /\ lastOp'.emitted[1].type = "session_started"
                  /\ lastOp'.emitted[1].data.gitStatus = extStatus[R]]_vars

\* C20 (fan-out of a status change): a poll of root R that fetched a status
\* differing from the cached one leaves the cache of R at the fetched status;
\* every registry record whose working directory resolved to R, the empty
\* working directory resolved as "." included, has the fetched status and got
\* exactly one status event; every other record is unchanged and got none.
C20_FanOut ==
  [][\A R \in Roots :
       (/\ lastOp'.op = "poll" /\ lastOp'.arg = R
        /\ lastOp'.fetched # Null /\ lastOp'.fetched # lastOp'.cachedBefore)
         => /\ CacheGet(gitStatusCache', R) = lastOp'.fetched
            /\ \A sid \in MapKeys(sessions) :
                 LET events == {i \in DOMAIN lastOp'.emitted :
                                  lastOp'.emitted[i].data.sessionId = sid}
                 IN IF SessionRoot(sid) = R
                    THEN /\ heap'[MapGet(sessions, sid)].gitStatus = lastOp'.fetched
                         /\ Cardinality(events) = 1
                    ELSE /\ heap'[MapGet(sessions, sid)] = heap[MapGet(sessions, sid)]
                         /\ events = {}]_vars

\* C21 (totality): every handler that was suspended in an await returns: a
\* request slot that is taken is free again later.  (The operations that
\* never await return in the step that serves them.)
C21_Totality ==
  \A r \in Slots : (reqs[r].kind # "idle") ~> (reqs[r].kind = "idle")

\* the lines of a transcript that JSON.parse accepts
WellFormed(lines) == SelectSeq(lines, LAMBDA l : l.type # "#malformed")

\* C22 (malformed-line resilience): what a scan returns is the scan of the
\* transcript without its unparseable lines, wherever they stand; and the scan
\* of a path with no readable file is zero tokens in, zero out and zero turns.
C22_MalformedLineResilience ==
  lastOp.op = "scan"
    => IF lastOp.arg \in DOMAIN files /\ files[lastOp.arg].exists
       THEN lastOp.result = <<ScanLines(WellFormed(files[lastOp.arg].lines))>>
       ELSE lastOp.result = <<[totalTokensIn |-> 0, totalTokensOut |-> 0, turnCount |-> 0]>>

\* C22 witness: a scan of a transcript with an unparseable line between an
\* assistant line and a user line returned the stats of those two.
C22_Witness ==
  /\ lastOp.op = "scan" /\ lastOp.arg = "t1"
  /\ files["t1"].lines = <<AssistantLine, MalformedLine, UserLine>>
  /\ lastOp.result = <<[totalTokensIn |-> 2, totalTokensOut |-> 1, turnCount |-> 1]>>

\* C23 (eviction is final until re-entry): a root that has no interval (it
\* was never polled, or its polling was stopped and no registration has
\* resolved to it since) has no entry in the status cache, and a poll of such
\* a root that completes emits no status event.
C23_EvictionFinal ==
  /\ [](\A R \in Roots : R \notin DOMAIN gitPollingIntervals => R \notin DOMAIN gitStatusCache)
  /\ [][\A R \in Roots :
          (R \notin DOMAIN gitPollingIntervals /\ lastOp'.op = "poll" /\ lastOp'.arg = R)
            => lastOp'.emitted = <<>>]_vars

\* the cache of R and every session record resolving to R hold what git reports
Fresh(R) ==
  /\ CacheGet(gitStatusCache, R) = extStatus[R]
  /\ \A sid \in SessionsAt(R) : heap[MapGet(sessions, sid)].gitStatus = extStatus[R]

\* C24 (bounded staleness): if from some point on root R keeps its interval
\* and the status git reports for R stays the same, then the cache of R and
\* the gitStatus of every session resolving to R come to equal that status.
C24_BoundedStaleness ==
  \A R \in Roots, st \in Statuses :
    (<>[](R \in DOMAIN gitPollingIntervals /\ extStatus[R] = st)) => []<>Fresh(R)

\* C25 (registration without resume): a registration whose source is not
\* resume, or that has no log path, puts into the registry under its id a new
\* record with zero token and turn counters, whether or not the id had a
\* record, and emits nothing yet; when it completes it emits exactly one
\* session_started event, which carries that record.
C25_RegisterFresh ==
  [][\A r \in Slots :
       /\ (reqs[r].kind = "idle" /\ reqs'[r].kind = "register" /\ reqs'[r].pc = "root")
            => LET m == heap'[MapGet(sessions', reqs'[r].sid)]
               IN /\ MapGet(sessions', reqs'[r].sid) = reqs'[r].meta
                  /\ Len(sessions') = Cardinality(MapKeys(sessions'))
                  /\ m.sessionId = reqs'[r].sid
                  /\ m.turnCount = 0 /\ m.totalTokensIn = 0 /\ m.totalTokensOut = 0
                  /\ lastOp'.emitted = <<>>
       /\ (reqs[r].kind = "register" /\ reqs[r].pc = "root" /\ reqs'[r].kind = "idle"
             /\ ~(reqs[r].source = "resume" /\ reqs[r].tpath # ""))
            => /\ Len(lastOp'.emitted) = 1
               /\ lastOp'.emitted[1].type = "session_started"
               /\ lastOp'.emitted[1].data.sessionId = reqs[r].sid
               /\ MapGet(sessions', reqs[r].sid) = reqs[r].meta
                    => lastOp'.emitted[1].data = heap'[reqs[r].meta]]_vars

\* C25 witness: the second registration of s1, a fresh one, is suspended
\* before its event; s1 has a response in its ledger, and its record in the
\* registry is the new one, with a turn counter of zero.
C25_Witness ==
  \E r \in Slots :
    /\ reqs[r].kind = "register" /\ reqs[r].pc = "root" /\ reqs[r].source = "startup"
    /\ nReg = 2
    /\ \A q \in Slots \ {r} : reqs[q].kind = "idle"
    /\ MapGet(responsesBySession, "s1") # <<>>
    /\ MapGet(sessions, "s1") = reqs[r].meta
    /\ heap[reqs[r].meta].turnCount = 0

\* the record of a session in the registry, Null for an unregistered one
RecordOf(h, sid) == IF MapHas(sessions, sid) THEN h[MapGet(sessions, sid)] ELSE Null

\* C26 (appendResponse, effect and frame): a response with non-empty content
\* adds exactly one entry, at the end of the session's sequence (created when
\* the ledger did not know the session), and emits exactly one new_response
\* event, carrying the entry; the turn counter of a registered session goes up
\* by one; the registry gets no new record; the session's own queue and every
\* other session's ledger, queue and record are unchanged.
C26_AppendResponseFrame ==
  [][\A sid \in SessionIds, role \in {"", "user"}, c \in Texts, id \in Ids :
       AppendResponse(sid, role, c, id)
         => LET old == ListResponses(responsesBySession, sid)
                new == ListResponses(responsesBySession', sid)
            IN /\ MapHas(responsesBySession', sid)
               /\ Len(new) = Len(old) + 1
               /\ SubSeq(new, 1, Len(old)) = old
               /\ new[Len(new)].sessionId = sid /\ new[Len(new)].content = c
               /\ lastOp'.emitted = <<[type |-> "new_response", data |-> new[Len(new)]]>>
               /\ sessions' = sessions
               /\ MapHas(sessions, sid)
                    => RecordOf(heap', sid).turnCount = RecordOf(heap, sid).turnCount + 1
               /\ ListAnn(annotationsBySession', sid) = ListAnn(annotationsBySession, sid)
               /\ \A o \in (SessionIds \cup {UnknownSid}) \ {sid} :
                    /\ MapHas(responsesBySession', o) = MapHas(responsesBySession, o)
                    /\ ListResponses(responsesBySession', o) = ListResponses(responsesBySession, o)
                    /\ MapHas(annotationsBySession', o) = MapHas(annotationsBySession, o)
                    /\ ListAnn(annotationsBySession', o) = ListAnn(annotationsBySession, o)
                    /\ RecordOf(heap', o) = RecordOf(heap, o)]_vars

\* C26 witness: a response has just been appended for s2, which is not
\* registered, while the registered s1 has a response and a pending annotation.
C26_Witness ==
  /\ Len(lastOp.emitted) = 1 /\ lastOp.emitted[1].type = "new_response"
  /\ lastOp.emitted[1].data.sessionId = "s2"
  /\ ~MapHas(sessions, "s2") /\ MapHas(sessions, "s1")
  /\ ListResponses(responsesBySession, "s1") # <<>>
  /\ ListAnn(annotationsBySession, "s1") # <<>>

\* C27 (deleteAnnotation): the first queue, in the order of the table, that
\* holds an annotation with the id loses the first such annotation; every other
\* queue, and the rest of that queue in its order, is unchanged; when no queue
\* holds the id nothing changes; nothing is emitted and no other table changes.
C27_DeleteAtMostOne ==
  [][\A id \in Ids :
       DeleteAnnotation(id)
         => /\ Len(annotationsBySession') = Len(annotationsBySession)
            /\ \A i \in DOMAIN annotationsBySession :
                 LET q == annotationsBySession[i].v
                     first == /\ FindIndex(q, id) # 0
                              /\ \A j \in 1..(i - 1) :
                                   FindIndex(annotationsBySession[j].v, id) = 0
                     k == CHOOSE n \in DOMAIN q : q[n].id = id /\ \A m \in 1..(n - 1) : q[m].id # id
                 IN /\ annotationsBySession'[i].k = annotationsBySession[i].k
                    /\ annotationsBySession'[i].v =
                         IF first
                         THEN [n \in 1..(Len(q) - 1) |-> IF n < k THEN q[n] ELSE q[n + 1]]
                         ELSE q
            /\ lastOp'.emitted = <<>>
            /\ UNCHANGED <<responsesBySession, heap, sessions>>]_vars

\* C27 witness: two annotations were added, none was ever handed to a drain,
\* and the only one left is the second: the first was deleted by its id.
C27_Witness ==
  /\ nAnn = 2
  /\ \A n \in DOMAIN delivered : delivered[n] = 0
  /\ Pending(annotationsBySession) = {2}

\* C28 (drain, without overlap): the read of a drain of session s returns, in
\* the order they were added, exactly the annotations added to s since the
\* previous drain of s and not removed by deleteAnnotation; when the drain is
\* over (its DELETE served, or nothing to delete) the queue of s is empty.
C28_DrainExact ==
  [][/\ \A d \in Drains, s \in AnnSessions :
          DrainGet(d, s)
            => /\ [i \in DOMAIN drain'[d].result |-> drain'[d].result[i].n] = sinceDrain[s]
               /\ \A i \in DOMAIN drain'[d].result : drain'[d].result[i].sessionId = s
               /\ drain'[d].pc = "done" => GetAnnotations(annotationsBySession', s) = <<>>
     /\ \A d \in Drains :
          (DrainDelete(d) /\ drain[d].sid \in AnnSessions)
            => GetAnnotations(annotationsBySession', drain[d].sid) = <<>>]_vars

\* C28 witness: a drain of s1 has just read annotation 2 and nothing else,
\* annotation 1 having been returned by an earlier drain and cleared.
C28_Witness ==
  \E d \in Drains :
    /\ drain[d].pc = "got"
    /\ drain[d].sid = "s1"
    /\ Nums(drain[d].result) = {2}
    /\ delivered[1] = 1
    /\ 1 \notin Pending(annotationsBySession)

\* number of positions of q that hold e
Count(q, e) == Cardinality({i \in DOMAIN q : q[i] = e})

\* C29 (listResponses without a session id): the answer holds every entry of
\* every session's ledger exactly once, in ascending order of timestamp, and
\* the ledger is not changed.
C29_ListAllResponses ==
  [][ListResponsesReq(NoSession)
       => LET all == ConcatVals(responsesBySession)
              res == lastOp'.result
          IN /\ Len(res) = Len(all)
             /\ \A i \in DOMAIN all : Count(res, all[i]) = Count(all, all[i])
             /\ \A i, j \in DOMAIN res : i < j => res[i].timestamp <= res[j].timestamp
             /\ UNCHANGED responsesBySession]_vars

\* C29 witness: a listing of all sessions has just returned two entries in an
\* order that is not the order of the concatenated ledgers.
C29_Witness ==
  /\ lastOp.op = "listResponses"
  /\ lastOp.arg = NoSession
  /\ Len(lastOp.result) = 2
  /\ lastOp.result # ConcatVals(responsesBySession)

\* C30 (listSessions): the answer holds the record of every registered
\* session exactly once, ended sessions included, in descending order of
\* lastActivity, and the registry is not changed.
C30_ListSessions ==
  [][ListSessionsReq
       => LET res == lastOp'.result
          IN /\ Len(res) = Len(sessions)
             /\ \A sid \in MapKeys(sessions) :
                  Count(res, heap[MapGet(sessions, sid)]) = 1
             /\ \A i, j \in DOMAIN res : i < j => res[i].lastActivity >= res[j].lastActivity
             /\ UNCHANGED <<sessions, heap>>]_vars

\* C30 witness: a listing has just returned two records, an ended session's
\* among them, in an order that is not the order of the registry.
C30_Witness ==
  /\ lastOp.op = "listSessions"
  /\ Len(lastOp.result) = 2
  /\ \E i \in DOMAIN lastOp.result : lastOp.result[i].sessionId \in ended
  /\ lastOp.result # SessionValues(heap, sessions)

\* the positions of a transcript that hold a well-formed record satisfying P
Records(lines, P(_)) == {i \in DOMAIN lines : lines[i].type # "#malformed" /\ P(lines[i])}

\* sum of a token field over a set of positions
RECURSIVE SumAt(_, _, _)
SumAt(lines, S, field) ==
  IF S = {} THEN 0
  ELSE LET i == CHOOSE x \in S : TRUE
       IN (CASE field = "in" -> lines[i].input_tokens + lines[i].cache_read_input_tokens
             [] field = "out" -> lines[i].output_tokens)
          + SumAt(lines, S \ {i}, field)

\* C31 (scan is the reference fold): tokens in is the sum of input_tokens +
\* cache_read_input_tokens over the assistant records that carry usage,
\* tokens out the sum of output_tokens over the same records, the turn count
\* the number of user records; no other record adds to any of the three.
C31_ScanReferenceFold ==
  (lastOp.op = "scan" /\ lastOp.arg \in DOMAIN files /\ files[lastOp.arg].exists)
    => LET lines == files[lastOp.arg].lines
           withUsage == Records(lines, LAMBDA l : l.type = "assistant" /\ l.usage)
           users == Records(lines, LAMBDA l : l.type = "user")
       IN lastOp.result = <<[totalTokensIn |-> SumAt(lines, withUsage, "in"),
                             totalTokensOut |-> SumAt(lines, withUsage, "out"),
                             turnCount |-> Cardinality(users)]>>

\* C31 witness: a scan of a transcript holding an assistant record with usage,
\* a record of another type with usage numbers, and an assistant record
\* without usage returned the numbers of the first alone.
C31_Witness ==
  /\ lastOp.op = "scan" /\ lastOp.arg = "t1"
  /\ files["t1"].lines = <<AssistantLine, [AssistantLine EXCEPT !.type = "system"], ToolLine>>
  /\ lastOp.result = <<[totalTokensIn |-> 2, totalTokensOut |-> 1, turnCount |-> 0]>>

\* the queue a drain with session parameter s is entitled to
OwnQueue(s) == IF s = NoSession THEN UnknownSid ELSE s

\* C32 (per-session isolation): the read of a drain issued for a session, the
\* empty or missing session id included, returns only annotations of that
\* session's queue, and its DELETE removes only annotations of that queue.
C32_QueueIsolation ==
  [][/\ \A d \in Drains, s \in DrainParams :
          DrainGet(d, s)
            => \A i \in DOMAIN drain'[d].result : drain'[d].result[i].sessionId = OwnQueue(s)
     /\ \A d \in Drains :
          DrainDelete(d)
            => \A i \in DOMAIN ConcatVals(annotationsBySession) :
                 LET a == ConcatVals(annotationsBySession)[i]
                 IN a.n \notin Pending(annotationsBySession')
                      => a.sessionId = OwnQueue(drain[d].sid)]_vars

\* C33 (an end does not undo a registration): when an end of a session
\* resumes from its final transcript scan and a registration of the same id
\* has completed in the meantime (the registry holds a record other than the
\* one the end read, and no registration of the id is still in flight), the
\* registry holds that newer record after the end.
C33_EndKeepsRegistration ==
  [][\A r \in Slots :
       (/\ EndAfterScan(r)
        /\ MapHas(sessions, reqs[r].sid)
        /\ MapGet(sessions, reqs[r].sid) # reqs[r].meta
        /\ \A q \in Slots : ~(reqs[q].kind = "register" /\ reqs[q].sid = reqs[r].sid))
         => MapGet(sessions', reqs[r].sid) = MapGet(sessions, reqs[r].sid)]_vars

\* C34 (the heartbeat writes the live record): whenever the heartbeat emits a
\* stats-changed event for a session, the three counters in the event are the
\* counters of the record the registry holds for that session at that moment.
C34_HeartbeatLiveRecord ==
  [][\A r \in Slots :
       (HeartbeatAfterScan(r) /\ lastOp'.emitted # <<>>)
         => LET e == lastOp'.emitted[1].data
                m == heap'[MapGet(sessions', e.sessionId)]
            IN /\ MapHas(sessions', e.sessionId)
               /\ e.totalTokensIn = m.totalTokensIn
               /\ e.totalTokensOut = m.totalTokensOut
               /\ e.turnCount = m.turnCount]_vars

\* the three counters of the record the registry map m holds for sid, in heap h
Counters(h, m, sid) ==
  <<h[MapGet(m, sid)].totalTokensIn, h[MapGet(m, sid)].totalTokensOut,
    h[MapGet(m, sid)].turnCount>>

\* C37 (counter monotonicity): in every step that is not the receipt of a
\* registration, none of the three counters of a registered session's record
\* decreases; the transcripts of the model are only ever appended to.
C37_CountersMonotone ==
  [][nReg' = nReg
       => \A sid \in MapKeys(sessions) :
            /\ MapHas(sessions', sid)
            /\ \A k \in 1..3 : Counters(heap', sessions', sid)[k] >= Counters(heap, sessions, sid)[k]]_vars

\* C35 (event ordering per session): when the end of a session is processed
\* and session_ended is broadcast, no registration of that id that the server
\* took up earlier is still on its way to broadcast session_started and to
\* start the polling of its root; so session_started of such a registration
\* comes before session_ended, and no polling is started for an ended session.
C35_StartedBeforeEnded ==
  [][\A s \in SessionIds :
       EndNow(s, "")
         => \A r \in Slots : ~(reqs[r].kind = "register" /\ reqs[r].sid = s)]_vars

\* C36 (cache entry consistency): whenever a context-docs cache entry is
\* stored, its result is the parse of exactly the transcript content whose
\* length it records; the transcript being append-only, that content is the
\* file as it stands when the length is read.
C36_CacheEntryConsistent ==
  [][\A r \in Slots :
       DocsStore(r)
         => LET e == contextDocsCache'[docsReqs[r].sid]
            IN /\ e.fileSize = FileSize(docsReqs[r].path)
               /\ e.result = ParseContextDocs(docsReqs[r].path)]_vars

\* C38 (observer stream): the open of a connection delivers the init message,
\* built from the tables as they are when the observer joins the broadcast
\* set, as the observer's first message; an observer connected across a step
\* receives in that step exactly what the step broadcast, in order, and
\* nothing otherwise; an observer that is not connected receives nothing.
C38_ObserverStream ==
  [][/\ \A o \in Observers :
          WsOpen(o) => (obs'[o].last = <<InitMsg>> /\ o \in wsClients')
     /\ \A o \in (wsClients \ wsDead) \cap (wsClients' \ wsDead') :
          obs'[o].last = IF lastOp'.emitted # <<>> THEN lastOp'.emitted ELSE obs[o].last
     /\ \A o \in Observers \ (wsClients' \ wsDead') : obs'[o].last = <<>>]_vars

\* C38 witness: o1, connected first, has just received a live event, and o2 is
\* not connected and has nothing; o1's copy of the tables, built from the
\* snapshot and the events since, holds the annotation.
C38_Witness ==
  /\ "o1" \in wsClients \ wsDead
  /\ "o2" \notin wsClients
  /\ obs["o1"].last # <<>> /\ obs["o1"].last[1].type = "session_started"
  /\ "s1" \in DOMAIN obs["o1"].tables.annotations
  /\ obs["o2"].last = <<>>

\* C39 (re-registration preserves captured data): a registration, at its
\* receipt and at its completion, leaves every session's response sequence
\* and pending annotation queue as they were, those of its own id included;
\* of the tables only the registry entry of its id is replaced.
C39_ReRegistrationKeepsData ==
  [][((\E s \in SessionIds : RegisterRecv(1, s, "/a", "startup", ""))
        \/ (\E a \in {"/a", NullRoot} : RegisterAfterRoot(1, a)))
       => /\ \A o \in SessionIds \cup {UnknownSid} :
               /\ ListResponses(responsesBySession', o) = ListResponses(responsesBySession, o)
               /\ ListAnn(annotationsBySession', o) = ListAnn(annotationsBySession, o)
               /\ (MapHas(sessions, o) /\ reqs'[1].sid # o /\ reqs[1].sid # o)
                    => MapGet(sessions', o) = MapGet(sessions, o)
          /\ reqs'[1].kind = "register"
               => heap'[MapGet(sessions', reqs'[1].sid)] =
                    NewMeta(reqs'[1].sid, "/a", "startup", "")]_vars

\* C39 witness: the second registration of s1 has just been received; the
\* response and the annotation captured before it are there, and the record
\* is a new one (its turn counter is 0 again).
C39_Witness ==
  /\ reqs[1].kind = "register" /\ reqs[1].sid = "s1"
  /\ lastOp.emitted = <<>>
  /\ nReg = 2 /\ ~MapHas(sessions, "s2")
  /\ ListResponses(responsesBySession, "s1") # <<>>
  /\ ListAnn(annotationsBySession, "s1") # <<>>
  /\ RecordOf(heap, "s1").turnCount = 0

\* C40 (table alignment): in every reachable state the response ledger and the
\* annotation queue have the same set of session keys, and that set holds every
\* session id of the registry.
C40_TableAlignment ==
  /\ MapKeys(responsesBySession) = MapKeys(annotationsBySession)
  /\ MapKeys(sessions) \subseteq MapKeys(responsesBySession)

\* C40 witness: s1 is registered and has a response; the key s2 is in both
\* tables without being in the registry, created by a response posted for an
\* id that was never registered, its queue still empty.
C40_Witness ==
  /\ MapKeys(sessions) = {"s1"}
  /\ MapKeys(responsesBySession) = {"s1", "s2"}
  /\ ListResponses(responsesBySession, "s1") # <<>>
  /\ ListResponses(responsesBySession, "s2") # <<>>
  /\ MapHas(annotationsBySession, "s2")
  /\ ListAnn(annotationsBySession, "s2") = <<>>

====
